---- MODULE Spec2Model ----
(***************************************************************************)
(* The Wallet controller and its PublicController (src/unnamed/part_001)   *)
(* and the wallet containers (src/unnamed/part_000) as a state machine.    *)
(* The record model (WalletRecordModel), the persistence gateway, the      *)
(* network registry, normalizeAddress and getTransactionChainId live       *)
(* outside src/; they are modelled from the design specification.          *)
(***************************************************************************)
EXTENDS Integers, Sequences, FiniteSets, TLC

VARIABLES
  id,                      \* Wallet.id
  record,                  \* Wallet.record (NoRecord stands for null)
  encryptionKey,           \* Wallet.encryptionKey ("" stands for null)
  seedPhraseEncryptionKey, \* Wallet.seedPhraseEncryptionKey ("" stands for null)
  timers,                  \* the ids of the seedPhraseExpiryTimer callbacks pending
  seedPhraseExpiryTimerId, \* Wallet.seedPhraseExpiryTimerId: 0, or the last timer set
  reveal,                  \* the reveal call in flight (what it captured)
  switching,               \* the wallet_switchEthereumChain call in flight
  containerObject,         \* a WalletContainer object and its wallets
  walletStore,             \* the persistence gateway: whether its writes fail, what its read gave
  pendingWallet,           \* Wallet.pendingWallet (NoPending stands for null)
  store,                   \* walletStore: for each id the record saved and the key it is encrypted with
  sync,                    \* "reading" while syncWithWalletStore awaits the store
  windows,                 \* confirmations the notification window has open
  txp,                     \* the sendTransaction call in flight (its locals)
  ret                      \* the last call settled or started, and its effects

vars == <<record, id, encryptionKey, seedPhraseEncryptionKey, timers,
          seedPhraseExpiryTimerId, reveal, switching, containerObject, walletStore,
          pendingWallet, store, sync, windows, txp, ret>>

\* a seedPhraseExpiryTimer callback is pending
timerArmed == timers # {}
\* what walletStore holds for the controller's id
stored == store[id].record

-----------------------------------------------------------------------------
(* Bounds of the model *)

\* confirmations open at once
MaxWindows == 1
\* wallets a container is grown to by addWallet
MaxWallets == 2

-----------------------------------------------------------------------------
(* Origins and call contexts *)

INTERNAL_ORIGIN == "chrome-extension://wallet"
INTERNAL_ORIGIN_SYMBOL == "Symbol(INTERNAL_ORIGIN)"
\* a context without origin (or no context at all)
NoOrigin == ""
WebOrigins == {"https://example.com", "https://dapp.org"}
INTERNAL_SYMBOL_CONTEXT == INTERNAL_ORIGIN_SYMBOL
Contexts == WebOrigins \cup {INTERNAL_ORIGIN, INTERNAL_ORIGIN_SYMBOL, NoOrigin}

-----------------------------------------------------------------------------
(* Addresses: two letter-case spellings of one address differ as strings *)

AddrA == "0xAa"
AddrB == "0xBb"
AddrP == "0xCc"
\* the address of the wallet uiGenerateMnemonic generates
AddrG == "0xEe"
\* the addresses a caller may name: stored spellings, a lower-case spelling
\* of AddrA, and an address no wallet has
AddrInputs == {"0xAa", "0xaa", "0xBb", "0xDd"}
NoAddress == ""

normalizeAddress(a) ==
  CASE a = "0xAa" -> "0xaa"
    [] a = "0xBb" -> "0xbb"
    [] a = "0xCc" -> "0xcc"
    [] a = "0xDd" -> "0xdd"
    [] a = "0xEe" -> "0xee"
    [] OTHER -> a

-----------------------------------------------------------------------------
(* Chains and the network registry *)

Ethereum == "ethereum"
Polygon == "polygon"
Chains == {Ethereum, Polygon}
NoChain == ""

\* networks.getChainId(chain)
getChainId(chain) == IF chain = Polygon THEN "0x89" ELSE "0x1"
\* networks.getChainById(chainId)
getChainById(chainId) == IF chainId = "0x89" THEN Polygon ELSE Ethereum
ChainIds == {"0x1", "0x89"}

-----------------------------------------------------------------------------
(* The record model (WalletRecordModel) *)

NoEntry == [present |-> FALSE, addresses |-> {}, chain |-> NoChain]
\* the origins a permission entry may be keyed by
PermOrigins == WebOrigins \cup {INTERNAL_ORIGIN}
NoPermissions == [o \in PermOrigins |-> NoEntry]
NoRecord == [exists |-> FALSE, groups |-> <<>>, currentAddress |-> NoAddress,
             permissions |-> NoPermissions, preferences |-> ""]

SeedMnemonic == "mnemonic"
SeedPrivateKey == "privateKey"

Wallet(address) == [address |-> address, name |-> ""]
Container(seedType, addresses) ==
  [seedType |-> seedType,
   wallets |-> [i \in 1..Len(addresses) |-> Wallet(addresses[i])]]
NoContainer == [seedType |-> "", wallets |-> <<>>]
NoPending == [exists |-> FALSE, origin |-> "", walletContainer |-> NoContainer]

\* the id of the group a container is committed to: one id for the imported
\* seed phrase, one for the generated one, one for the private key
GroupId(container) ==
  IF container.seedType = SeedPrivateKey THEN "gP"
  ELSE IF container.wallets # <<>> /\ container.wallets[1].address = AddrG THEN "gG"
  ELSE "gM"
createGroup(pw) ==
  [id |-> GroupId(pw.walletContainer), walletContainer |-> pw.walletContainer,
   origin |-> pw.origin, name |-> "", lastBackedUp |-> 0]

RECURSIVE SeqAddrs(_)
SeqAddrs(ws) == IF ws = <<>> THEN {} ELSE {Head(ws).address} \cup SeqAddrs(Tail(ws))
GroupAddrs(g) == SeqAddrs(g.walletContainer.wallets)
\* every address some wallet of some group has, in its stored spelling
OwnedAddrs(rec) == UNION {GroupAddrs(rec.groups[i]) : i \in 1..Len(rec.groups)}

\* Model.getWalletByAddress: case-insensitive
OwnsAddress(rec, address) ==
  \E a \in OwnedAddrs(rec) : normalizeAddress(a) = normalizeAddress(address)

\* Model.createOrUpdateRecord
createOrUpdateRecord(rec, pw) ==
  IF ~rec.exists
    THEN [exists |-> TRUE, groups |-> <<createGroup(pw)>>,
          currentAddress |-> pw.walletContainer.wallets[1].address,
          permissions |-> NoPermissions, preferences |-> ""]
  ELSE IF \E i \in 1..Len(rec.groups) : rec.groups[i].id = GroupId(pw.walletContainer)
    THEN rec
  ELSE [rec EXCEPT !.groups = Append(@, createGroup(pw))]

\* Model.addPermission
addPermission(rec, address, origin) ==
  [rec EXCEPT !.permissions[origin] =
     [present |-> TRUE, addresses |-> @.addresses \cup {address}, chain |-> @.chain]]

\* Model.removePermission
removePermission(rec, origin, address) ==
  IF ~rec.permissions[origin].present THEN rec
  ELSE IF address = NoAddress \/ rec.permissions[origin].addresses \ {address} = {}
    THEN [rec EXCEPT !.permissions[origin] = NoEntry]
  ELSE [rec EXCEPT !.permissions[origin].addresses = @ \ {address}]

\* Model.removeAllOriginPermissions
removeAllOriginPermissions(rec) == [rec EXCEPT !.permissions = NoPermissions]

\* Model.setCurrentAddress: fails for an address no group owns
setCurrentAddressFails(rec, address) == ~OwnsAddress(rec, address)
setCurrentAddressModel(rec, address) == [rec EXCEPT !.currentAddress = address]

\* Model.getChainForOrigin: the default chain for an origin never set
getChainForOrigin(rec, origin) ==
  IF origin \in PermOrigins /\ rec.permissions[origin].chain # NoChain
    THEN rec.permissions[origin].chain
    ELSE Ethereum

\* the chain set for every origin at once
setChainForEveryOrigin(rec, chain, origin) ==
  [rec EXCEPT !.permissions =
     [o \in PermOrigins |->
        [present |-> TRUE, addresses |-> rec.permissions[o].addresses, chain |-> chain]]]
\* Model.setChainForOrigin
setChainForOriginModel(rec, chain, origin) ==
  [rec EXCEPT !.permissions[origin] =
     [present |-> TRUE, addresses |-> @.addresses, chain |-> chain]]

-----------------------------------------------------------------------------
(* What a call leaves behind: its outcome and the effects it had *)

NoRet == [m |-> "", ctx |-> "", kind |-> "", err |-> "", accounts |-> <<>>,
          str |-> "", address |-> "", origin |-> "", saved |-> FALSE,
          events |-> <<>>, payload |-> <<>>, opened |-> 0, arg |-> <<>>,
          wallets |-> <<>>]
Call(m, ctx) == [NoRet EXCEPT !.m = m, !.ctx = ctx]
Throw(c, e) == [c EXCEPT !.kind = "error", !.err = e]
Return(c, s) == [c EXCEPT !.kind = "value", !.str = s]
ReturnAccounts(c, as) == [c EXCEPT !.kind = "value", !.accounts = as]
\* the call returned a promise that a confirmation will settle
Pending(c) == [c EXCEPT !.kind = "pending", !.opened = 1]

\* a call that reached an await
Suspended(c) == [c EXCEPT !.kind = "suspended"]
\* the gateway at rest: its writes succeed and no read has answered
NoStore == [failing |-> FALSE, read |-> NoRecord, rejected |-> FALSE]
\* the ids of two wallets: the one the controller is constructed with, another
WalletId == "I1"
OtherId == "I2"
Ids == {WalletId, OtherId}
\* what the store holds under an id: nothing, or a record encrypted with a key
NoBlob == [record |-> NoRecord, key |-> ""]
Blob(rec, key) == IF rec.exists THEN [record |-> rec, key |-> key] ELSE NoBlob
\* a store that holds rec, encrypted with "key", under the controller's id
StoreOf(rec) == [i \in Ids |-> IF i = WalletId THEN Blob(rec, "key") ELSE NoBlob]
\* no container object
NoObject == [exists |-> FALSE, seedType |-> "", wallets |-> <<>>]
\* no wallet_switchEthereumChain call in flight
NoSwitch == [pc |-> "idle", ctx |-> "", chainId |-> "", current |-> ""]
\* no reveal call in flight
NoReveal == [pc |-> "idle", call |-> NoRet, found |-> FALSE, value |-> ""]
NoTx == [pc |-> "idle", from |-> "", txChainId |-> "", gas |-> FALSE,
         origin |-> "", chainId |-> "", filled |-> FALSE, signer |-> "",
         signChain |-> ""]

-----------------------------------------------------------------------------
(* Wallet: helpers *)

\* Wallet.readCurrentAddress: record?.walletManager.currentAddress || null
readCurrentAddress(rec) == IF rec.exists THEN rec.currentAddress ELSE NoAddress

verifyInternalOriginAnyOrigin(ctx) == ctx # NoOrigin
\* Wallet.verifyInternalOrigin: TRUE when it does not throw
verifyInternalOrigin(ctx) == ctx = INTERNAL_ORIGIN \/ ctx = INTERNAL_ORIGIN_SYMBOL

\* Wallet.allowedOrigin throws for a missing context or origin
allowedOriginThrows(ctx) == ctx = NoOrigin

allowedOriginAlways(rec, ctx, address) == TRUE
allowedOriginNoInternal(rec, ctx, address) ==
  /\ rec.exists
  /\ ctx \in WebOrigins
  /\ address \in rec.permissions[ctx].addresses
allowedOriginAnyAddress(rec, ctx, address) ==
  \/ ctx = INTERNAL_ORIGIN
  \/ /\ rec.exists
     /\ ctx \in WebOrigins
     /\ rec.permissions[ctx].addresses # {}
\* Wallet.allowedOrigin, for a context that has an origin
allowedOrigin(rec, ctx, address) ==
  \/ ctx = INTERNAL_ORIGIN
  \/ /\ rec.exists
     /\ ctx \in PermOrigins
     /\ rec.permissions[ctx].present
     /\ address \in rec.permissions[ctx].addresses

\* Wallet.updateWalletStore: what the store holds after the call
updateWalletStore(rec) ==
  IF encryptionKey = "" \/ walletStore.failing THEN store
  ELSE [store EXCEPT ![id] = Blob(rec, encryptionKey)]
\* whether updateWalletStore issued walletStore.save
savedNow == encryptionKey # ""

\* Wallet.getChainIdForOrigin
getChainIdForOrigin(rec, origin) ==
  IF ~rec.exists THEN "0x1" ELSE getChainId(getChainForOrigin(rec, origin))

\* getTransactionChainId(tx): the transaction's chain id, "" when it has none
getTransactionChainId(tx) == tx.chainId

Frame(rec, win) ==
  /\ record' = rec
  /\ windows' = win
  /\ UNCHANGED <<id, encryptionKey, seedPhraseEncryptionKey, timers, seedPhraseExpiryTimerId, reveal, switching, containerObject, walletStore,
                 pendingWallet, sync, txp>>
ReadOnly == Frame(record, windows) /\ UNCHANGED store

-----------------------------------------------------------------------------
(* Wallet: permissions and the current address *)

acceptOriginForgets(rec, origin, address) == rec
\* what acceptOrigin(origin, address) makes of the record; an error inside
\* it rejects a promise nobody awaits
acceptOriginRecord(rec, origin, address) ==
  IF rec.exists THEN addPermission(rec, address, origin) ELSE rec

\* Wallet.allowedOrigin called on its own
callAllowedOrigin(ctx, address) ==
  /\ ret' = LET c == [Call("allowedOrigin", ctx) EXCEPT !.address = address] IN
            IF allowedOriginThrows(ctx) THEN Throw(c, "This method requires context")
            ELSE IF allowedOrigin(record, ctx, address) THEN Return(c, "true")
            ELSE Return(c, "false")
  /\ ReadOnly

\* [currentAddress].filter(isTruthy)
filterTruthy(address) == IF address = NoAddress THEN <<>> ELSE <<address>>

\* the event published before the address is looked up
setCurrentAddressEmitsFirst(ctx, address) ==
  LET c == Call("setCurrentAddress", ctx) IN
  IF ~verifyInternalOrigin(ctx)
    THEN ret' = Throw(c, "OriginNotAllowed") /\ ReadOnly
  ELSE IF ~record.exists
    THEN ret' = Throw(c, "RecordNotFound") /\ ReadOnly
  ELSE IF setCurrentAddressFails(record, address)
    THEN ret' = [Throw(c, "AddressNotOwned") EXCEPT !.events = <<"currentAddressChange">>,
                                                    !.payload = filterTruthy(address)]
         /\ ReadOnly
  ELSE /\ Frame(setCurrentAddressModel(record, address), windows)
       /\ store' = updateWalletStore(record')
       /\ ret' = [Return(c, "") EXCEPT !.saved = savedNow,
                                       !.events = <<"currentAddressChange">>,
                                       !.payload = filterTruthy(record'.currentAddress)]
\* Wallet.setCurrentAddress
setCurrentAddress(ctx, address) ==
  LET c == Call("setCurrentAddress", ctx) IN
  IF ~verifyInternalOrigin(ctx)
    THEN ret' = Throw(c, "OriginNotAllowed") /\ ReadOnly
  ELSE IF ~record.exists
    THEN ret' = Throw(c, "RecordNotFound") /\ ReadOnly
  ELSE IF setCurrentAddressFails(record, address)
    THEN ret' = Throw(c, "AddressNotOwned") /\ ReadOnly
  ELSE /\ Frame(setCurrentAddressModel(record, address), windows)
       /\ store' = updateWalletStore(record')
       /\ ret' = [Return(c, "") EXCEPT !.saved = savedNow,
                                       !.events = <<"currentAddressChange">>,
                                       !.payload = filterTruthy(record'.currentAddress)]

\* Wallet.removePermission
removePermissionCall(ctx, origin, address) ==
  LET c == [Call("removePermission", ctx) EXCEPT !.address = address,
                                                 !.origin = origin] IN
  IF ~verifyInternalOrigin(ctx)
    THEN ret' = Throw(c, "OriginNotAllowed") /\ ReadOnly
  ELSE IF ~record.exists
    THEN ret' = Throw(c, "RecordNotFound") /\ ReadOnly
  ELSE /\ Frame(removePermission(record, origin, address), windows)
       /\ store' = updateWalletStore(record')
       /\ ret' = [Return(c, "") EXCEPT !.saved = savedNow,
                                       !.events = <<"permissionsUpdated">>]

\* Wallet.removeAllOriginPermissions
removeAllOriginPermissionsCall(ctx) ==
  LET c == Call("removeAllOriginPermissions", ctx) IN
  IF ~verifyInternalOrigin(ctx)
    THEN ret' = Throw(c, "OriginNotAllowed") /\ ReadOnly
  ELSE IF ~record.exists
    THEN ret' = Throw(c, "RecordNotFound") /\ ReadOnly
  ELSE /\ Frame(removeAllOriginPermissions(record), windows)
       /\ store' = updateWalletStore(record')
       /\ ret' = [Return(c, "") EXCEPT !.saved = savedNow,
                                       !.events = <<"permissionsUpdated">>]

-----------------------------------------------------------------------------
(* PublicController: accounts *)

\* the answer of PublicController.eth_accounts over a record
ethAccounts(c, rec, ctx) ==
  LET currentAddress == readCurrentAddress(rec) IN
  IF currentAddress = NoAddress THEN ReturnAccounts(c, <<>>)
  ELSE IF allowedOriginThrows(ctx) THEN Throw(c, "This method requires context")
  ELSE IF allowedOrigin(rec, ctx, currentAddress)
    THEN ReturnAccounts(c, <<currentAddress>>)
  ELSE ReturnAccounts(c, <<>>)

\* PublicController.eth_accounts
eth_accounts(ctx) ==
  /\ ret' = ethAccounts(Call("eth_accounts", ctx), record, ctx)
  /\ ReadOnly

\* a confirmation: its route, the origin that asked, and in requestPermissions
\* the params of the wallet_requestPermissions call awaiting it, if one is
Window(route, origin) == [route |-> route, origin |-> origin, requestPermissions |-> <<>>]

eth_requestAccountsAlwaysAsks(ctx) ==
  /\ ctx # NoOrigin /\ ctx # INTERNAL_ORIGIN_SYMBOL
  /\ Len(windows) < MaxWindows
  /\ ret' = Pending(Call("eth_requestAccounts", ctx))
  /\ Frame(record, Append(windows, Window("/requestAccounts", ctx)))
  /\ UNCHANGED store
\* PublicController.eth_requestAccounts, up to the promise it returns
eth_requestAccounts(ctx) ==
  LET c == Call("eth_requestAccounts", ctx)
      currentAddress == readCurrentAddress(record) IN
  IF currentAddress # NoAddress /\ allowedOriginThrows(ctx)
    THEN ret' = Throw(c, "This method requires context") /\ ReadOnly
  ELSE IF currentAddress # NoAddress /\ allowedOrigin(record, ctx, currentAddress)
    THEN ret' = ReturnAccounts(c, <<currentAddress>>) /\ ReadOnly
  ELSE IF ctx = NoOrigin
    THEN ret' = Throw(c, "This method requires origin") /\ ReadOnly
  ELSE IF ctx = INTERNAL_ORIGIN_SYMBOL
    \* `?origin=${origin}` cannot convert a symbol: the executor throws
    THEN ret' = Throw(c, "TypeError") /\ ReadOnly
  ELSE /\ Len(windows) < MaxWindows
       /\ ret' = Pending(c)
       /\ Frame(record, Append(windows, Window("/requestAccounts", ctx)))
       /\ UNCHANGED store

RemoveAt(seq, i) == SubSeq(seq, 1, i - 1) \o SubSeq(seq, i + 1, Len(seq))

\* onResolve of eth_requestAccounts: the user approved `address`
requestAccountsOnResolve(i, address) ==
  LET w == windows[i]
      c == [Call("onResolve/requestAccounts", w.origin) EXCEPT !.address = address]
      currentAddress == readCurrentAddress(record)
      switch == normalizeAddress(address) # normalizeAddress(currentAddress)
      rec1 == IF switch THEN setCurrentAddressModel(record, address) ELSE record
      rec2 == acceptOriginRecord(rec1, w.origin, address)
      ev == (IF switch THEN <<"currentAddressChange">> ELSE <<>>)
              \o <<"permissionsUpdated">>
  IN
  /\ i \in 1..Len(windows)
  /\ w.route = "/requestAccounts"
  /\ w.requestPermissions = <<>>
  /\ IF address = NoAddress
       THEN /\ ret' = [c EXCEPT !.kind = "unsettled",
                                !.err = "Confirmation resolved with invalid arguments"]
            /\ Frame(record, RemoveAt(windows, i)) /\ UNCHANGED store
     ELSE IF currentAddress = NoAddress
       THEN /\ ret' = [c EXCEPT !.kind = "unsettled", !.err = "Wallet is not initialized"]
            /\ Frame(record, RemoveAt(windows, i)) /\ UNCHANGED store
     ELSE IF switch /\ setCurrentAddressFails(record, address)
       THEN /\ ret' = [c EXCEPT !.kind = "unsettled", !.err = "AddressNotOwned"]
            /\ Frame(record, RemoveAt(windows, i)) /\ UNCHANGED store
     ELSE /\ Frame(rec2, RemoveAt(windows, i))
          /\ store' = updateWalletStore(rec2)
          /\ ret' = [ethAccounts(c, rec2, w.origin) EXCEPT
                       !.saved = savedNow, !.events = ev,
                       !.payload = IF switch THEN filterTruthy(rec1.currentAddress)
                                   ELSE <<>>]

\* PublicController.generatePermissionResponse: TRUE when it does not throw;
\* params is the list of the objects given, each the set of its keys
generatePermissionResponse(params) ==
  params # <<>> /\ "eth_accounts" \in params[1]

\* PublicController.wallet_requestPermissions, up to the promise that
\* eth_requestAccounts returns
wallet_requestPermissions(ctx, params) ==
  LET c == [Call("wallet_requestPermissions", ctx) EXCEPT !.arg = params]
      currentAddress == readCurrentAddress(record) IN
  IF currentAddress # NoAddress /\ allowedOriginThrows(ctx)
    THEN ret' = Throw(c, "This method requires context") /\ ReadOnly
  ELSE IF currentAddress # NoAddress /\ allowedOrigin(record, ctx, currentAddress)
    THEN /\ ret' = IF generatePermissionResponse(params)
                     THEN Return(c, "eth_accounts") ELSE Throw(c, "InvalidParams")
         /\ ReadOnly
  ELSE IF ctx = NoOrigin
    THEN ret' = Throw(c, "This method requires origin") /\ ReadOnly
  ELSE IF ctx = INTERNAL_ORIGIN_SYMBOL
    THEN ret' = Throw(c, "TypeError") /\ ReadOnly
  ELSE /\ Len(windows) < MaxWindows
       /\ ret' = Pending(c)
       /\ Frame(record, Append(windows,
                  [Window("/requestAccounts", ctx) EXCEPT !.requestPermissions = <<params>>]))
       /\ UNCHANGED store

\* onResolve of the eth_requestAccounts that wallet_requestPermissions
\* awaits, and wallet_requestPermissions resumed with its result
requestPermissionsOnResolve(i, address) ==
  LET w == windows[i]
      params == w.requestPermissions[1]
      c == [Call("onResolve/requestPermissions", w.origin) EXCEPT !.address = address,
                                                                  !.arg = params]
      currentAddress == readCurrentAddress(record)
      switch == normalizeAddress(address) # normalizeAddress(currentAddress)
      rec1 == IF switch THEN setCurrentAddressModel(record, address) ELSE record
      rec2 == acceptOriginRecord(rec1, w.origin, address)
      ev == (IF switch THEN <<"currentAddressChange">> ELSE <<>>)
              \o <<"permissionsUpdated">>
  IN
  /\ i \in 1..Len(windows)
  /\ w.route = "/requestAccounts"
  /\ w.requestPermissions # <<>>
  /\ IF address = NoAddress
       THEN /\ ret' = [c EXCEPT !.kind = "unsettled",
                                !.err = "Confirmation resolved with invalid arguments"]
            /\ Frame(record, RemoveAt(windows, i)) /\ UNCHANGED store
     ELSE IF currentAddress = NoAddress
       THEN /\ ret' = [c EXCEPT !.kind = "unsettled", !.err = "Wallet is not initialized"]
            /\ Frame(record, RemoveAt(windows, i)) /\ UNCHANGED store
     ELSE IF switch /\ setCurrentAddressFails(record, address)
       THEN /\ ret' = [c EXCEPT !.kind = "unsettled", !.err = "AddressNotOwned"]
            /\ Frame(record, RemoveAt(windows, i)) /\ UNCHANGED store
     ELSE /\ Frame(rec2, RemoveAt(windows, i))
          /\ store' = updateWalletStore(rec2)
          /\ ret' = [(IF generatePermissionResponse(params)
                        THEN Return(c, "eth_accounts") ELSE Throw(c, "InvalidParams"))
                       EXCEPT !.saved = savedNow, !.events = ev,
                              !.payload = IF switch THEN filterTruthy(rec1.currentAddress)
                                          ELSE <<>>]

onDismissTxSignature(i) ==
  /\ i \in 1..Len(windows)
  /\ ret' = Throw(Call("onDismiss" \o windows[i].route, windows[i].origin),
                  "UserRejectedTxSignature")
  /\ Frame(record, RemoveAt(windows, i))
  /\ UNCHANGED store
\* onDismiss of any confirmation
onDismiss(i) ==
  /\ i \in 1..Len(windows)
  /\ ret' = Throw(Call("onDismiss" \o windows[i].route, windows[i].origin),
                  IF windows[i].route = "/requestAccounts"
                    THEN "UserRejected" ELSE "UserRejectedTxSignature")
  /\ Frame(record, RemoveAt(windows, i))
  /\ UNCHANGED store

\* onResolve of a signing confirmation: the promise resolves with the result
signOnResolve(i) ==
  /\ i \in 1..Len(windows)
  /\ windows[i].route # "/requestAccounts"
  /\ ret' = Return(Call("onResolve" \o windows[i].route, windows[i].origin), "result")
  /\ Frame(record, RemoveAt(windows, i))
  /\ UNCHANGED store

-----------------------------------------------------------------------------
(* PublicController: signing requests *)

\* a transaction parameter; NoTxParam stands for a missing params[0]
TxParam(from, chainId, gas) ==
  [present |-> TRUE, from |-> from, chainId |-> chainId, gas |-> gas]
NoTxParam == [present |-> FALSE, from |-> "", chainId |-> "", gas |-> FALSE]

OpenWindow(c, route, origin) ==
  /\ Len(windows) < MaxWindows
  /\ ret' = Pending(c)
  /\ Frame(record, Append(windows, Window(route, origin)))
  /\ UNCHANGED store

\* PublicController.eth_sendTransaction, up to the promise it returns
eth_sendTransaction(ctx, tx) ==
  LET c == [Call("eth_sendTransaction", ctx) EXCEPT !.address = tx.from]
      currentAddress == readCurrentAddress(record) IN
  IF currentAddress = NoAddress
    THEN ret' = Throw(c, "Wallet is not initialized") /\ ReadOnly
  ELSE IF allowedOriginThrows(ctx)
    THEN ret' = Throw(c, "This method requires context") /\ ReadOnly
  ELSE IF ~allowedOrigin(record, ctx, currentAddress)
    THEN ret' = Throw(c, "OriginNotAllowed") /\ ReadOnly
  ELSE IF ~tx.present
    THEN ret' = Throw(c, "InvalidParams") /\ ReadOnly
  ELSE OpenWindow(c, "/sendTransaction", ctx)

\* PublicController.eth_signTypedData_v4, up to the promise it returns
eth_signTypedData_v4(ctx, address) ==
  LET c == [Call("eth_signTypedData_v4", ctx) EXCEPT !.address = address]
      currentAddress == readCurrentAddress(record) IN
  IF currentAddress = NoAddress
    THEN ret' = Throw(c, "Wallet is not initialized") /\ ReadOnly
  ELSE IF allowedOriginThrows(ctx)
    THEN ret' = Throw(c, "This method requires context") /\ ReadOnly
  ELSE IF ~allowedOrigin(record, ctx, currentAddress)
    THEN ret' = Throw(c, "OriginNotAllowed") /\ ReadOnly
  ELSE IF normalizeAddress(address) # normalizeAddress(currentAddress)
    THEN ret' = Throw(c, "AddressMismatch") /\ ReadOnly
  ELSE OpenWindow(c, "/signMessage", ctx)

\* PublicController.personal_sign, up to the promise it returns;
\* hasParams is params.length > 0, address is params[1] ("" when left out)
personal_sign(ctx, hasParams, address) ==
  LET c == [Call("personal_sign", ctx) EXCEPT !.address = address]
      currentAddress == readCurrentAddress(record) IN
  IF ~hasParams
    THEN ret' = Throw(c, "InvalidParams") /\ ReadOnly
  ELSE IF currentAddress = NoAddress
    THEN ret' = Throw(c, "Wallet is not initialized") /\ ReadOnly
  ELSE IF address # NoAddress
          /\ normalizeAddress(address) # normalizeAddress(currentAddress)
    THEN ret' = Throw(c, "AddressMismatch") /\ ReadOnly
  ELSE IF allowedOriginThrows(ctx)
    THEN ret' = Throw(c, "This method requires context") /\ ReadOnly
  ELSE IF ~allowedOrigin(record, ctx, currentAddress)
    THEN ret' = Throw(c, "OriginNotAllowed") /\ ReadOnly
  ELSE OpenWindow(c, "/signMessage", ctx)

-----------------------------------------------------------------------------
(* Wallet: credentials, the session key and the pending wallet *)

\* setTimeout gives the timer an id no pending timer has; two ids tell a
\* timer set anew from the one before
nextTimerId(timerId) == IF timerId = 1 THEN 2 ELSE 1

\* clearTimeout(id): the timer of that id, if pending, never fires
clearTimeout(pending, timerId) == pending \ {timerId}

\* the new timer set beside the one pending
setExpirationWithoutClear ==
  /\ timers' = timers \union {nextTimerId(seedPhraseExpiryTimerId)}
  /\ seedPhraseExpiryTimerId' = nextTimerId(seedPhraseExpiryTimerId)
\* Wallet.setExpirationForSeedPhraseEncryptionKey
setExpirationForSeedPhraseEncryptionKey ==
  /\ timers' = clearTimeout(timers, seedPhraseExpiryTimerId)
                  \union {nextTimerId(seedPhraseExpiryTimerId)}
  /\ seedPhraseExpiryTimerId' = nextTimerId(seedPhraseExpiryTimerId)

\* Wallet.updateCredentials, up to its await of the store
updateCredentials(newId, key, seedKey) ==
  /\ id' = newId
  /\ encryptionKey' = key
  /\ seedPhraseEncryptionKey' = seedKey
  /\ setExpirationForSeedPhraseEncryptionKey
  /\ sync' = "reading"
  /\ ret' = Call("updateCredentials", NoOrigin)
  /\ UNCHANGED <<record, reveal, switching, containerObject, walletStore, pendingWallet, store, windows, txp>>

\* walletStore.read(id, encryptionKey) rejects when the record saved under
\* the id is encrypted with another key
readRejects == store[id].record.exists /\ store[id].key # encryptionKey

\* Wallet.verifyCredentials: walletStore.check(id, encryptionKey) throws for
\* a key that does not decrypt the record saved under the id
verifyCredentials(checkedId, key) ==
  /\ ret' = LET c == [Call("verifyCredentials", NoOrigin) EXCEPT !.arg = <<checkedId, key>>] IN
            IF store[checkedId].record.exists /\ store[checkedId].key # key
              THEN Throw(c, "DecryptionError") ELSE Return(c, "")
  /\ ReadOnly

\* walletStore.read answers the read syncWithWalletStore is waiting for,
\* with the record stored at that moment
walletStoreRead ==
  /\ sync = "reading"
  /\ sync' = "read"
  /\ walletStore' = [walletStore EXCEPT !.read = IF readRejects THEN NoRecord ELSE stored,
                                        !.rejected = readRejects]
  /\ ret' = Call("walletStore.read", NoOrigin)
  /\ UNCHANGED <<record, id, encryptionKey, seedPhraseEncryptionKey, timers,
                 seedPhraseExpiryTimerId, reveal, switching, containerObject,
                 pendingWallet, store, windows, txp>>

\* the storage behind walletStore.save starts or stops failing
walletStoreFailure ==
  /\ walletStore' = [walletStore EXCEPT !.failing = ~@]
  /\ ret' = Call("walletStore.save fails", NoOrigin)
  /\ UNCHANGED <<record, id, encryptionKey, seedPhraseEncryptionKey, timers,
                 seedPhraseExpiryTimerId, reveal, switching, containerObject,
                 pendingWallet, store, sync, windows, txp>>

\* Wallet.syncWithWalletStore, resumed with what walletStore.read gave
syncWithWalletStore ==
  LET c == Call("syncWithWalletStore", NoOrigin)
      rejected == IF sync = "read" THEN walletStore.rejected ELSE readRejects
      read == IF sync = "read" THEN walletStore.read ELSE stored IN
  /\ sync \in {"reading", "read"}
  /\ sync' = "idle"
  /\ IF rejected
       \* the rejection passes to the caller of updateCredentials; the
       \* constructor, which set no timer yet, has no handler for it
       THEN /\ record' = record
            /\ ret' = [c EXCEPT !.kind = IF seedPhraseExpiryTimerId = 0
                                           THEN "unhandled" ELSE "error",
                                !.err = "DecryptionError"]
       ELSE /\ record' = read
            /\ ret' = [c EXCEPT !.events = IF record'.exists THEN <<"recordUpdated">>
                                           ELSE <<>>]
  /\ UNCHANGED <<id, encryptionKey, seedPhraseEncryptionKey, timers, seedPhraseExpiryTimerId, reveal, switching, containerObject, walletStore,
                 pendingWallet, store, windows, txp>>

seedPhraseExpiryTimerKeepsKey ==
  /\ \E timerId \in timers : timers' = timers \ {timerId}
  /\ ret' = Call("seedPhraseExpiryTimer", NoOrigin)
  /\ UNCHANGED <<record, id, encryptionKey, seedPhraseEncryptionKey,
                 seedPhraseExpiryTimerId, reveal, switching, containerObject, walletStore, pendingWallet, store, sync,
                 windows, txp>>
\* the callback setExpirationForSeedPhraseEncryptionKey scheduled
seedPhraseExpiryTimer ==
  /\ \E timerId \in timers : timers' = timers \ {timerId}
  /\ seedPhraseEncryptionKey' = ""
  /\ ret' = Call("seedPhraseExpiryTimer", NoOrigin)
  /\ UNCHANGED <<record, id, encryptionKey, seedPhraseExpiryTimerId, reveal, switching, containerObject, walletStore,
                 pendingWallet, store, sync, windows, txp>>

\* Wallet.removeSeedPhraseEncryptionKey called on its own
removeSeedPhraseEncryptionKey ==
  /\ seedPhraseEncryptionKey' = ""
  /\ ret' = Call("removeSeedPhraseEncryptionKey", NoOrigin)
  /\ UNCHANGED <<record, id, encryptionKey, timers, seedPhraseExpiryTimerId, reveal, switching, containerObject, walletStore,
                 pendingWallet, store, sync, windows, txp>>

\* the staged container written to the store at once
SetPendingSaves(c, origin, container) ==
  /\ pendingWallet' = [exists |-> TRUE, origin |-> origin, walletContainer |-> container]
  /\ store' = [store EXCEPT ![id].record = createOrUpdateRecord(stored, pendingWallet')]
  /\ ret' = Return(c, container.wallets[1].address)
  /\ UNCHANGED <<record, id, encryptionKey, seedPhraseEncryptionKey, timers, seedPhraseExpiryTimerId, reveal, switching, containerObject, walletStore,
                 sync, windows, txp>>
SetPending(c, origin, container) ==
  /\ pendingWallet' = [exists |-> TRUE, origin |-> origin, walletContainer |-> container]
  /\ ret' = Return(c, container.wallets[1].address)
  /\ UNCHANGED <<record, id, encryptionKey, seedPhraseEncryptionKey, timers, seedPhraseExpiryTimerId, reveal, switching, containerObject, walletStore,
                 store, sync, windows, txp>>

\* Wallet.uiGenerateMnemonic
uiGenerateMnemonic ==
  LET c == Call("uiGenerateMnemonic", NoOrigin) IN
  IF seedPhraseEncryptionKey = ""
    THEN ret' = Throw(c, "SessionExpired") /\ ReadOnly
  ELSE SetPending(c, "extension", Container(SeedMnemonic, <<AddrG>>))

\* Wallet.uiImportPrivateKey
uiImportPrivateKey ==
  LET c == Call("uiImportPrivateKey", NoOrigin) IN
  /\ TRUE
  /\ SetPending(c, "imported", Container(SeedPrivateKey, <<AddrP>>))

\* Wallet.uiImportSeedPhrase
uiImportSeedPhrase(addresses) ==
  LET c == Call("uiImportSeedPhrase", NoOrigin) IN
  IF seedPhraseEncryptionKey = ""
    THEN ret' = Throw(c, "SessionExpired") /\ ReadOnly
  ELSE SetPending(c, "imported", Container(SeedMnemonic, addresses))

\* savePendingWallet that keeps the pending wallet
savePendingWalletKeepsPending ==
  LET c == Call("savePendingWallet", NoOrigin) IN
  IF ~pendingWallet.exists
    THEN ret' = Throw(c, "pendingWallet is null") /\ ReadOnly
  ELSE IF encryptionKey = ""
    THEN ret' = Throw(c, "encryptionKey is null") /\ ReadOnly
  ELSE /\ record' = createOrUpdateRecord(record, pendingWallet)
       /\ seedPhraseEncryptionKey' = ""
       /\ store' = updateWalletStore(record')
       /\ ret' = [Return(c, "") EXCEPT !.saved = TRUE]
       /\ UNCHANGED <<id, encryptionKey, timers, seedPhraseExpiryTimerId, reveal, switching, containerObject, walletStore, sync, windows, txp, pendingWallet>>

\* Wallet.uiGetWalletByAddress: the address of the masked wallet, "" for null
uiGetWalletByAddress(ctx, address) ==
  /\ ret' = LET c == [Call("uiGetWalletByAddress", ctx) EXCEPT !.address = address] IN
            IF ~verifyInternalOrigin(ctx) THEN Throw(c, "OriginNotAllowed")
            ELSE IF ~record.exists THEN Throw(c, "RecordNotFound")
            ELSE IF address = NoAddress THEN Throw(c, "Ilegal argument: address is required for this method")
            ELSE IF OwnsAddress(record, address)
              THEN Return(c, CHOOSE a \in OwnedAddrs(record) :
                               normalizeAddress(a) = normalizeAddress(address))
            ELSE Return(c, "")
  /\ ReadOnly

\* Wallet.savePendingWallet
savePendingWallet ==
  LET c == Call("savePendingWallet", NoOrigin) IN
  IF ~pendingWallet.exists
    THEN ret' = Throw(c, "pendingWallet is null") /\ ReadOnly
  ELSE IF encryptionKey = ""
    THEN ret' = Throw(c, "encryptionKey is null") /\ ReadOnly
  ELSE /\ record' = createOrUpdateRecord(record, pendingWallet)
       /\ pendingWallet' = NoPending
       /\ seedPhraseEncryptionKey' = ""
       /\ store' = updateWalletStore(record')
       /\ ret' = [Return(c, "") EXCEPT !.saved = TRUE]
       /\ UNCHANGED <<id, encryptionKey, timers, seedPhraseExpiryTimerId, reveal, switching, containerObject, walletStore, sync, windows, txp>>

-----------------------------------------------------------------------------
(* The record model: groups, names and preferences *)

HasGroup(rec, groupId) == \E i \in 1..Len(rec.groups) : rec.groups[i].id = groupId
GroupOf(rec, groupId) ==
  rec.groups[CHOOSE i \in 1..Len(rec.groups) : rec.groups[i].id = groupId]

\* Model.renameWalletGroup
renameWalletGroup(rec, groupId, name) ==
  [rec EXCEPT !.groups =
     [i \in 1..Len(rec.groups) |->
        IF rec.groups[i].id = groupId
          THEN [rec.groups[i] EXCEPT !.name = name] ELSE rec.groups[i]]]

RenameIn(ws, address, name) ==
  [j \in 1..Len(ws) |->
     IF normalizeAddress(ws[j].address) = normalizeAddress(address)
       THEN [ws[j] EXCEPT !.name = name] ELSE ws[j]]
\* Model.renameAddress
renameAddress(rec, address, name) ==
  [rec EXCEPT !.groups =
     [i \in 1..Len(rec.groups) |->
        [rec.groups[i] EXCEPT !.walletContainer.wallets = RenameIn(@, address, name)]]]

\* the permissions without any spelling of the addresses in `gone`
PrunePermissions(perms, gone) ==
  [o \in PermOrigins |->
     LET left == {a \in perms[o].addresses :
                    normalizeAddress(a) \notin {normalizeAddress(g) : g \in gone}} IN
     IF perms[o].present /\ left = {} /\ perms[o].addresses # {}
       THEN NoEntry ELSE [perms[o] EXCEPT !.addresses = left]]

\* the record once `groups` replaced its groups and the addresses `gone` left
AfterRemoval(rec, groups, gone) ==
  LET kept == UNION {SeqAddrs(groups[i].walletContainer.wallets) : i \in 1..Len(groups)}
      current ==
        IF \E a \in kept : normalizeAddress(a) = normalizeAddress(rec.currentAddress)
          THEN rec.currentAddress
        ELSE IF groups = <<>> THEN NoAddress
        ELSE groups[1].walletContainer.wallets[1].address IN
  [rec EXCEPT !.groups = groups, !.currentAddress = current,
              !.permissions = PrunePermissions(@, gone)]

\* Model.removeAddress: a group left without wallets goes with its last address
removeAddress(rec, address) ==
  LET Keeps(w) == normalizeAddress(w.address) # normalizeAddress(address)
      NonEmpty(g) == g.walletContainer.wallets # <<>>
      stripped == [i \in 1..Len(rec.groups) |->
                     [rec.groups[i] EXCEPT
                        !.walletContainer.wallets = SelectSeq(@, Keeps)]] IN
  AfterRemoval(rec, SelectSeq(stripped, NonEmpty),
               {a \in OwnedAddrs(rec) : normalizeAddress(a) = normalizeAddress(address)})

\* Model.removeWalletGroup
removeWalletGroup(rec, groupId) ==
  LET Other(g) == g.id # groupId IN
  AfterRemoval(rec, SelectSeq(rec.groups, Other),
               IF HasGroup(rec, groupId) THEN GroupAddrs(GroupOf(rec, groupId)) ELSE {})

\* Model.setPreference
setPreference(rec, preferences) == [rec EXCEPT !.preferences = preferences]

\* Model.getRecoveryPhrase fails for a group that is absent or has no mnemonic
hasRecoveryPhrase(rec, groupId) ==
  HasGroup(rec, groupId) /\ GroupOf(rec, groupId).walletContainer.seedType = SeedMnemonic

-----------------------------------------------------------------------------
(* Wallet: internal (UI-only) methods *)

\* a method that edits the record: verifyInternalOrigin, the record check,
\* the model function, updateWalletStore
Mutation(c, ctx, rec) ==
  IF ~verifyInternalOrigin(ctx)
    THEN ret' = Throw(c, "OriginNotAllowed") /\ ReadOnly
  ELSE IF ~record.exists
    THEN ret' = Throw(c, "RecordNotFound") /\ ReadOnly
  ELSE /\ Frame(rec, windows)
       /\ store' = updateWalletStore(rec)
       /\ ret' = [Return(c, "") EXCEPT !.saved = savedNow]

RevealRestartsTimer(c, ctx, found, value) ==
  IF ~verifyInternalOrigin(ctx)
    THEN ret' = Throw(c, "OriginNotAllowed") /\ ReadOnly
  ELSE IF ~record.exists
    THEN ret' = Throw(c, "RecordNotFound") /\ ReadOnly
  ELSE IF seedPhraseEncryptionKey = ""
    THEN ret' = Throw(c, "SessionExpired") /\ ReadOnly
  ELSE /\ reveal.pc = "idle"
       /\ reveal' = [pc |-> "awaitModel", call |-> c, found |-> found, value |-> value]
       /\ ret' = Suspended(c)
       /\ setExpirationForSeedPhraseEncryptionKey
       /\ UNCHANGED <<record, id, encryptionKey, seedPhraseEncryptionKey, switching, containerObject, walletStore,
                      pendingWallet, store, sync, windows, txp>>
\* a method that reveals a secret, up to its await of the model function:
\* verifyInternalOrigin, the record check, the session-key check, then the
\* call of the model function with the record and the key as they are now
Reveal(c, ctx, found, value) ==
  IF ~verifyInternalOrigin(ctx)
    THEN ret' = Throw(c, "OriginNotAllowed") /\ ReadOnly
  ELSE IF ~record.exists
    THEN ret' = Throw(c, "RecordNotFound") /\ ReadOnly
  ELSE IF seedPhraseEncryptionKey = ""
    THEN ret' = Throw(c, "SessionExpired") /\ ReadOnly
  ELSE /\ reveal.pc = "idle"
       /\ reveal' = [pc |-> "awaitModel", call |-> c, found |-> found, value |-> value]
       /\ ret' = Suspended(c)
       /\ UNCHANGED <<record, id, encryptionKey, seedPhraseEncryptionKey, timers,
                      seedPhraseExpiryTimerId, switching, containerObject, walletStore, pendingWallet, store, sync,
                      windows, txp>>

revealSettleRechecks ==
  /\ reveal.pc = "awaitModel"
  /\ reveal' = NoReveal
  /\ ret' = IF seedPhraseEncryptionKey = "" THEN Throw(reveal.call, "SessionExpired")
            ELSE IF reveal.found THEN Return(reveal.call, reveal.value)
            ELSE Throw(reveal.call, "NotFound")
  /\ UNCHANGED <<record, id, encryptionKey, seedPhraseEncryptionKey, timers,
                 seedPhraseExpiryTimerId, switching, containerObject, walletStore, pendingWallet, store, sync,
                 windows, txp>>
\* the reveal resumed with what the model function settled with
revealSettle ==
  /\ reveal.pc = "awaitModel"
  /\ reveal' = NoReveal
  /\ ret' = IF reveal.found THEN Return(reveal.call, reveal.value)
            ELSE Throw(reveal.call, "NotFound")
  /\ UNCHANGED <<record, id, encryptionKey, seedPhraseEncryptionKey, timers,
                 seedPhraseExpiryTimerId, switching, containerObject, walletStore, pendingWallet, store, sync,
                 windows, txp>>

\* Wallet.getRecoveryPhrase
getRecoveryPhrase(ctx, groupId) ==
  Reveal(Call("getRecoveryPhrase", ctx), ctx, hasRecoveryPhrase(record, groupId),
         "phrase")
\* Wallet.verifyRecoveryPhrase
verifyRecoveryPhrase(ctx, groupId, value) ==
  Reveal(Call("verifyRecoveryPhrase", ctx), ctx, hasRecoveryPhrase(record, groupId),
         IF value = "phrase" THEN "true" ELSE "false")
\* Wallet.getPrivateKey
getPrivateKey(ctx, address) ==
  Reveal([Call("getPrivateKey", ctx) EXCEPT !.address = address], ctx,
         OwnsAddress(record, address), "privateKey")
\* Wallet.verifyPrivateKey
verifyPrivateKey(ctx, address, value) ==
  Reveal([Call("verifyPrivateKey", ctx) EXCEPT !.address = address], ctx,
         OwnsAddress(record, address),
         IF value = "privateKey" THEN "true" ELSE "false")

\* Wallet.renameWalletGroup
renameWalletGroupCall(ctx, groupId, name) ==
  Mutation(Call("renameWalletGroup", ctx), ctx, renameWalletGroup(record, groupId, name))
\* Wallet.renameAddress
renameAddressCall(ctx, address, name) ==
  Mutation([Call("renameAddress", ctx) EXCEPT !.address = address], ctx,
           renameAddress(record, address, name))
\* Wallet.removeAddress
removeAddressCall(ctx, address) ==
  Mutation([Call("removeAddress", ctx) EXCEPT !.address = address], ctx,
           removeAddress(record, address))
\* Wallet.removeWalletGroup
removeWalletGroupCall(ctx, groupId) ==
  Mutation(Call("removeWalletGroup", ctx), ctx, removeWalletGroup(record, groupId))
\* Wallet.setPreference
setPreferenceCall(ctx, preferences) ==
  Mutation(Call("setPreference", ctx), ctx, setPreference(record, preferences))

\* Wallet.setChainForOrigin
setChainForOrigin(c, chain, origin) ==
  IF ~record.exists
    THEN ret' = Throw(c, "RecordNotFound") /\ ReadOnly
  ELSE /\ Frame(setChainForOriginModel(record, chain, origin), windows)
       /\ store' = updateWalletStore(record')
       /\ ret' = [Return(c, "") EXCEPT !.saved = savedNow,
                                       !.events = <<"chainChanged">>,
                                       !.payload = <<chain, origin>>]

\* Wallet.switchChainForOrigin
switchChainForOrigin(ctx, chain, origin) ==
  LET c == [Call("switchChainForOrigin", ctx) EXCEPT !.origin = origin, !.arg = <<chain>>] IN
  IF ~verifyInternalOrigin(ctx)
    THEN ret' = Throw(c, "OriginNotAllowed") /\ ReadOnly
  ELSE setChainForOrigin(c, chain, origin)

\* Wallet.requestChainForOrigin
requestChainForOrigin(ctx, origin) ==
  /\ ret' = LET c == [Call("requestChainForOrigin", ctx) EXCEPT !.origin = origin] IN
            IF ~verifyInternalOrigin(ctx) THEN Throw(c, "OriginNotAllowed")
            ELSE IF ~record.exists THEN Throw(c, "RecordNotFound")
            ELSE Return(c, getChainForOrigin(record, origin))
  /\ ReadOnly

\* Wallet.getSigner fails without a record or without a wallet for the
\* current address
getSignerError(rec) ==
  IF ~rec.exists THEN "RecordNotFound"
  ELSE IF rec.currentAddress = NoAddress \/ ~OwnsAddress(rec, rec.currentAddress)
    THEN "Wallet is not initialized"
  ELSE ""

SignCall(c, ctx, hasParam) ==
  /\ ret' = IF ~verifyInternalOrigin(ctx) THEN Throw(c, "OriginNotAllowed")
            ELSE IF ~hasParam THEN Throw(c, "InvalidParams")
            ELSE IF getSignerError(record) # "" THEN Throw(c, getSignerError(record))
            ELSE Return(c, "signature")
  /\ ReadOnly
\* Wallet.personalSign
personalSign(ctx, hasMessage) == SignCall(Call("personalSign", ctx), ctx, hasMessage)
\* Wallet.signTypedData_v4
signTypedData_v4(ctx, hasData) == SignCall(Call("signTypedData_v4", ctx), ctx, hasData)

-----------------------------------------------------------------------------
(* Wallet: the transaction pipeline.  sendTransaction suspends at its awaits;
   txp holds its locals in between and other calls run meanwhile. *)

SendCall(t) == [Call("sendTransaction", INTERNAL_ORIGIN) EXCEPT
                  !.address = t.from, !.origin = t.origin]
FailSend(t, e) ==
  /\ txp' = NoTx
  /\ ret' = Throw(SendCall(t), e)
  /\ UNCHANGED <<record, id, encryptionKey, seedPhraseEncryptionKey, timers, seedPhraseExpiryTimerId, reveal, switching, containerObject, walletStore,
                 pendingWallet, store, sync, windows>>
ContinueSend(t) ==
  /\ txp' = t
  /\ ret' = Suspended(SendCall(t))
  /\ UNCHANGED <<record, id, encryptionKey, seedPhraseEncryptionKey, timers, seedPhraseExpiryTimerId, reveal, switching, containerObject, walletStore,
                 pendingWallet, store, sync, windows>>

\* the wallet Model.getWalletByAddress finds for the current address
currentWallet(rec) ==
  CHOOSE a \in OwnedAddrs(rec) :
    normalizeAddress(a) = normalizeAddress(rec.currentAddress)

\* sendTransaction from `const signer = await this.getSigner(chainId)` up to
\* getSigner's await of the provider
getSigner(t) ==
  IF getSignerError(record) # "" THEN FailSend(t, getSignerError(record))
  ELSE ContinueSend([t EXCEPT !.pc = "awaitProvider",
                              !.signer = currentWallet(record),
                              !.signChain = t.chainId])

sameFromExact(from, currentAddress) == from = currentAddress
\* the comparison of tx.from with the current address
sameFrom(from, currentAddress) ==
  normalizeAddress(from) = normalizeAddress(currentAddress)

\* Wallet.sendTransaction up to its first await (getChainIdForOrigin)
sendTransaction(c, tx, ctx, transactionOrigin) ==
  LET currentAddress == readCurrentAddress(record) IN
  IF ~verifyInternalOrigin(ctx)
    THEN ret' = Throw(c, "OriginNotAllowed") /\ ReadOnly
  ELSE IF tx.from = NoAddress
    THEN ret' = Throw(c, "FromMissing") /\ ReadOnly
  ELSE IF currentAddress = NoAddress
    THEN ret' = Throw(c, "Wallet is not initialized") /\ ReadOnly
  ELSE IF ~sameFrom(tx.from, currentAddress)
    THEN ret' = Throw(c, "FromMismatch") /\ ReadOnly
  ELSE /\ txp.pc = "idle"
       /\ txp' = [NoTx EXCEPT !.pc = "awaitChainId", !.from = tx.from,
                              !.txChainId = tx.chainId, !.gas = tx.gas,
                              !.origin = transactionOrigin,
                              !.chainId = getChainIdForOrigin(record, transactionOrigin)]
       /\ ret' = Suspended(c)
       /\ UNCHANGED <<record, id, encryptionKey, seedPhraseEncryptionKey, timers, seedPhraseExpiryTimerId, reveal, switching, containerObject, walletStore,
                      pendingWallet, store, sync, windows>>

\* Wallet.signAndSendTransaction
signAndSendTransaction(ctx, tx, origin) ==
  LET c == [Call("signAndSendTransaction", ctx) EXCEPT !.address = tx.from,
                                                       !.origin = origin,
                                                       !.str = tx.chainId] IN
  IF ~verifyInternalOrigin(ctx)
    THEN ret' = Throw(c, "OriginNotAllowed") /\ ReadOnly
  ELSE IF ctx = INTERNAL_ORIGIN_SYMBOL
    THEN ret' = Throw(c, "Origin must be a string") /\ ReadOnly
  ELSE IF ~tx.present
    THEN ret' = Throw(c, "InvalidParams") /\ ReadOnly
  ELSE sendTransaction(c, tx, ctx, origin)

chainNeverDiffers(targetChainId, chainId) == FALSE
\* targetChainId && chainId !== targetChainId
chainDiffers(targetChainId, chainId) == targetChainId # "" /\ chainId # targetChainId

\* sendTransaction resumed with the origin's chain id: the chainId check,
\* prepareTransaction, then the gas price or the signer
sendTransactionChainId ==
  LET targetChainId == getTransactionChainId([chainId |-> txp.txChainId])
      t == IF targetChainId = ""
             THEN [txp EXCEPT !.txChainId = txp.chainId, !.filled = TRUE]
             ELSE txp IN
  /\ txp.pc = "awaitChainId"
  /\ IF chainDiffers(targetChainId, txp.chainId)
       THEN FailSend(txp, "ChainMismatch")
     ELSE IF ~t.gas
       THEN ContinueSend([t EXCEPT !.pc = "awaitGasPrice"])
     ELSE getSigner(t)

\* sendTransaction resumed after fetchAndAssignGasPrice
sendTransactionGasPrice(ok) ==
  /\ txp.pc = "awaitGasPrice"
  /\ IF ok THEN getSigner([txp EXCEPT !.gas = TRUE])
     ELSE FailSend(txp, "GasPriceError")

\* the address compared once more when the provider is there
sendTransactionProviderRechecksFrom ==
  /\ txp.pc = "awaitProvider"
  /\ IF ~sameFrom(txp.from, readCurrentAddress(record))
       THEN FailSend(txp, "FromMismatch")
       ELSE ContinueSend([txp EXCEPT !.pc = "awaitSend"])
\* getSigner resumed with the provider: signer.sendTransaction is issued
sendTransactionProvider ==
  /\ txp.pc = "awaitProvider"
  /\ ContinueSend([txp EXCEPT !.pc = "awaitSend"])

\* sendTransaction resumed with the node's answer
sendTransactionResponse(ok) ==
  /\ txp.pc = "awaitSend"
  /\ IF ok
       THEN /\ txp' = NoTx
            /\ ret' = [Return(SendCall(txp), txp.signChain) EXCEPT
                         !.events = <<"pendingTransactionCreated">>]
            /\ UNCHANGED <<record, id, encryptionKey, seedPhraseEncryptionKey,
                           timers, seedPhraseExpiryTimerId, reveal, switching, containerObject, walletStore, pendingWallet, store, sync, windows>>
     ELSE FailSend(txp, "NetworkError")

-----------------------------------------------------------------------------
(* PublicController: chains *)

\* ethers.utils.hexValue: the hex string without leading zeros
hexValue(p) ==
  CASE p = "0x01" -> "0x1"
    [] p = "0x089" -> "0x89"
    [] OTHER -> p
\* String(parseInt(chainId))
decimalString(chainId) ==
  CASE chainId = "0x1" -> "1"
    [] chainId = "0x89" -> "137"
    [] OTHER -> "NaN"

eth_chainIdPermitted(ctx) ==
  /\ ret' = LET c == Call("eth_chainId", ctx) IN
            IF ctx = NoOrigin THEN Throw(c, "Unknown sender origin")
            ELSE IF ~allowedOrigin(record, ctx, readCurrentAddress(record))
              THEN Throw(c, "OriginNotAllowed")
            ELSE Return(c, getChainIdForOrigin(record, ctx))
  /\ ReadOnly
\* PublicController.eth_chainId; getChainIdForOrigin reads the record before
\* its await, so the answer is the one of the moment of the call
eth_chainId(ctx) ==
  /\ ret' = LET c == Call("eth_chainId", ctx) IN
            IF ctx = NoOrigin THEN Throw(c, "Unknown sender origin")
            ELSE Return(c, getChainIdForOrigin(record, ctx))
  /\ ReadOnly

\* PublicController.net_version
net_version(ctx) ==
  /\ ret' = LET c == Call("net_version", ctx) IN
            IF ctx = NoOrigin THEN Throw(c, "Unknown sender origin")
            ELSE Return(c, decimalString(getChainIdForOrigin(record, ctx)))
  /\ ReadOnly

SwitchCall(sw) == [Call("wallet_switchEthereumChain", sw.ctx) EXCEPT !.origin = sw.ctx]
SwitchFrame ==
  UNCHANGED <<id, encryptionKey, seedPhraseEncryptionKey, timers,
              seedPhraseExpiryTimerId, reveal, containerObject, walletStore, pendingWallet, sync,
              windows, txp>>

wallet_switchEthereumChainUnchecked(ctx, chainIdParameter) ==
  LET c == [Call("wallet_switchEthereumChain", ctx) EXCEPT !.origin = ctx,
                                                           !.str = chainIdParameter]
      currentAddress == readCurrentAddress(record) IN
  IF currentAddress = NoAddress
    THEN ret' = Throw(c, "Wallet is not initialized") /\ ReadOnly
  ELSE IF allowedOriginThrows(ctx)
    THEN ret' = Throw(c, "This method requires context") /\ ReadOnly
  ELSE /\ switching.pc = "idle"
       /\ switching' = [pc |-> "awaitChainId", ctx |-> ctx,
                        chainId |-> hexValue(chainIdParameter),
                        current |-> getChainIdForOrigin(record, ctx)]
       /\ ret' = Suspended(c)
       /\ SwitchFrame /\ UNCHANGED <<record, store>>
\* PublicController.wallet_switchEthereumChain up to its first await
\* (getChainIdForOrigin, which has read the record by then)
wallet_switchEthereumChain(ctx, chainIdParameter) ==
  LET c == [Call("wallet_switchEthereumChain", ctx) EXCEPT !.origin = ctx,
                                                           !.str = chainIdParameter]
      currentAddress == readCurrentAddress(record) IN
  IF currentAddress = NoAddress
    THEN ret' = Throw(c, "Wallet is not initialized") /\ ReadOnly
  ELSE IF allowedOriginThrows(ctx)
    THEN ret' = Throw(c, "This method requires context") /\ ReadOnly
  ELSE IF ~allowedOrigin(record, ctx, currentAddress)
    THEN ret' = Throw(c, "OriginNotAllowed") /\ ReadOnly
  ELSE /\ switching.pc = "idle"
       /\ switching' = [pc |-> "awaitChainId", ctx |-> ctx,
                        chainId |-> hexValue(chainIdParameter),
                        current |-> getChainIdForOrigin(record, ctx)]
       /\ ret' = Suspended(c)
       /\ SwitchFrame /\ UNCHANGED <<record, store>>

neverSameChainId(chainId, currentChainIdForThisOrigin) == FALSE
\* chainId === currentChainIdForThisOrigin
sameChainId(chainId, currentChainIdForThisOrigin) ==
  chainId = currentChainIdForThisOrigin

\* wallet_switchEthereumChain resumed with the origin's chain id
switchEthereumChainChainId ==
  /\ switching.pc = "awaitChainId"
  /\ IF sameChainId(switching.chainId, switching.current)
       THEN /\ switching' = NoSwitch
            /\ ret' = Return(SwitchCall(switching), "null")
       ELSE /\ switching' = [switching EXCEPT !.pc = "awaitNetworks"]
            /\ ret' = Suspended(SwitchCall(switching))
  /\ SwitchFrame /\ UNCHANGED <<record, store>>

\* wallet_switchEthereumChain resumed with the networks: setChainForOrigin
switchEthereumChainNetworks ==
  LET chain == getChainById(switching.chainId)
      c == SwitchCall(switching) IN
  /\ switching.pc = "awaitNetworks"
  /\ switching' = NoSwitch
  /\ SwitchFrame
  /\ IF ~record.exists
       THEN ret' = Throw(c, "RecordNotFound") /\ UNCHANGED <<record, store>>
       ELSE /\ record' = setChainForOriginModel(record, chain, switching.ctx)
            /\ store' = updateWalletStore(record')
            /\ ret' = [Return(c, "null") EXCEPT !.saved = savedNow,
                                               !.events = <<"chainChanged">>,
                                               !.payload = <<chain, switching.ctx>>]

-----------------------------------------------------------------------------
(* WalletContainer: bare wallets and the two container classes *)

\* key material: the address of a private key and the private key that a
\* mnemonic derives (what ethers computes; distinct keys, distinct addresses)
computeAddress(privateKey) ==
  CASE privateKey = "k1" -> "0xAa"
    [] privateKey = "k2" -> "0xBb"
    [] privateKey = "k3" -> "0xCc"
derivePrivateKey(mnemonic) ==
  CASE mnemonic = "m1" -> "k1"
    [] mnemonic = "m2" -> "k2"
    [] mnemonic = "m3" -> "k3"
\* String.prototype.toLowerCase on an address
toLowerCase(a) == IF a = NoAddress THEN a ELSE normalizeAddress(a)

\* a (partial) BareWallet; "" stands for a missing, null or undefined field
BareWallet(address, privateKey, mnemonic, name) ==
  [address |-> address, privateKey |-> privateKey, mnemonic |-> mnemonic, name |-> name]
\* new ethers.Wallet(privateKey): the wallet of a private key has no mnemonic
ethersWallet(privateKey) == BareWallet(computeAddress(privateKey), privateKey, "", "")
\* ethers.Wallet.fromMnemonic(phrase, path)
fromMnemonic(mnemonic) ==
  BareWallet(computeAddress(derivePrivateKey(mnemonic)), derivePrivateKey(mnemonic), mnemonic, "")
\* the mnemonics ethers.Wallet.createRandom may draw
RandomMnemonics == {"m3"}
fromEthersWallet(wallet) == BareWallet(wallet.address, wallet.privateKey, wallet.mnemonic, "")

\* restoreBareWallet; random is the mnemonic createRandom draws when asked
restoreBareWallet(wallet, random) ==
  IF wallet.address # "" /\ wallet.privateKey # ""
  THEN BareWallet(wallet.address, wallet.privateKey, wallet.mnemonic, wallet.name)
  ELSE IF wallet.privateKey # "" THEN fromEthersWallet(ethersWallet(wallet.privateKey))
  ELSE IF wallet.mnemonic # "" THEN fromEthersWallet(fromMnemonic(wallet.mnemonic))
  ELSE fromEthersWallet(fromMnemonic(random))

\* the wallets argument of a constructor: no list at all, or a list
NoList == [given |-> FALSE, list |-> <<>>]
List(l) == [given |-> TRUE, list |-> l]
ConstructorCall(m, wallets) ==
  [Call(m, NoOrigin) EXCEPT !.str = IF wallets.given THEN "list" ELSE "missing",
                            !.arg = wallets.list]
ContainerFrame ==
  UNCHANGED <<record, id, encryptionKey, seedPhraseEncryptionKey, timers,
              seedPhraseExpiryTimerId, reveal, switching, walletStore,
              pendingWallet, store, sync, windows, txp>>
MapWallets(l, random) == [i \in 1..Len(l) |-> restoreBareWallet(l[i], random)]

\* new MnemonicWalletContainer(wallets)
newMnemonicWalletContainer(wallets, random) ==
  LET c == ConstructorCall("new MnemonicWalletContainer", wallets) IN
  /\ IF ~wallets.given \/ Len(wallets.list) = 0
     THEN /\ containerObject' = [exists |-> TRUE, seedType |-> SeedMnemonic,
                                 wallets |-> <<restoreBareWallet(BareWallet("", "", "", ""), random)>>]
          /\ ret' = [c EXCEPT !.kind = "value"]
     ELSE IF \E i \in 1..Len(wallets.list) : wallets.list[i].mnemonic = ""
     THEN /\ containerObject' = NoObject
          /\ ret' = Throw(c, "Mnemonic container is expected to have a wallet with a mnemonic")
     ELSE /\ containerObject' = [exists |-> TRUE, seedType |-> SeedMnemonic,
                                 wallets |-> MapWallets(wallets.list, random)]
          /\ ret' = [c EXCEPT !.kind = "value"]
  /\ ContainerFrame

\* the length test of the PrivateKeyWalletContainer constructor
wrongLength(wallets) == ~wallets.given \/ Len(wallets.list) > 1

\* new PrivateKeyWalletContainer(wallets)
newPrivateKeyWalletContainer(wallets) ==
  LET c == ConstructorCall("new PrivateKeyWalletContainer", wallets) IN
  /\ IF wrongLength(wallets)
     THEN /\ containerObject' = NoObject
          /\ ret' = Throw(c, "Wallets array is expected to have exactly one element")
     ELSE IF \E i \in 1..Len(wallets.list) : wallets.list[i].privateKey = ""
     THEN /\ containerObject' = NoObject
          /\ ret' = Throw(c, "PrivateKey container is expected to have a wallet with a privateKey")
     ELSE /\ containerObject' =
               [exists |-> TRUE, seedType |-> SeedPrivateKey,
                wallets |-> [i \in 1..Len(wallets.list) |->
                               restoreBareWallet(ethersWallet(wallets.list[i].privateKey), "m3")]]
          /\ ret' = [c EXCEPT !.kind = "value"]
  /\ ContainerFrame

\* container.addWallet(wallet)
addWallet(wallet) ==
  LET c == [Call("addWallet", NoOrigin) EXCEPT !.address = wallet.address] IN
  /\ containerObject.exists
  /\ IF containerObject.seedType = SeedPrivateKey
     THEN /\ ret' = Throw(c, "PrivateKeyWalletContainer cannot have multiple wallets")
          /\ UNCHANGED containerObject
     ELSE /\ Len(containerObject.wallets) < MaxWallets
          /\ containerObject' = [containerObject EXCEPT !.wallets = Append(@, wallet)]
          /\ ret' = [c EXCEPT !.kind = "value"]
  /\ ContainerFrame

\* findIndex comparing the addresses as they are spelled
findIndexExactCase(wallets, address) ==
  LET hits == {i \in 1..Len(wallets) : wallets[i].address = address} IN
  IF hits = {} THEN 0 ELSE CHOOSE i \in hits : \A j \in hits : i <= j
\* Array.prototype.findIndex with the address test of removeWallet: 0 for -1
findIndex(wallets, address) ==
  LET hits == {i \in 1..Len(wallets) : toLowerCase(wallets[i].address) = toLowerCase(address)} IN
  IF hits = {} THEN 0 ELSE CHOOSE i \in hits : \A j \in hits : i <= j
\* Array.prototype.splice(pos, 1)
splice(wallets, pos) ==
  [i \in 1..(Len(wallets) - 1) |-> IF i < pos THEN wallets[i] ELSE wallets[i + 1]]

\* removeWallet without the early return: splice(-1, 1) drops the last wallet
removeWalletUnguarded(address) ==
  LET c == [Call("removeWallet", NoOrigin) EXCEPT !.address = address]
      pos == findIndex(containerObject.wallets, address) IN
  /\ containerObject.exists
  /\ containerObject' =
       IF containerObject.wallets = <<>> THEN containerObject
       ELSE [containerObject EXCEPT
               !.wallets = splice(@, IF pos = 0 THEN Len(containerObject.wallets) ELSE pos)]
  /\ ret' = [c EXCEPT !.kind = "value"]
  /\ ContainerFrame

\* container.removeWallet(address)
removeWallet(address) ==
  LET c == [Call("removeWallet", NoOrigin) EXCEPT !.address = address]
      pos == findIndex(containerObject.wallets, address) IN
  /\ containerObject.exists
  /\ containerObject' = IF pos = 0 THEN containerObject
                        ELSE [containerObject EXCEPT !.wallets = splice(@, pos)]
  /\ ret' = [c EXCEPT !.kind = "value"]
  /\ ContainerFrame

\* container.getFirstWallet(): wallets[0]; <<>> stands for undefined
getFirstWallet ==
  /\ containerObject.exists
  /\ ret' = [Call("getFirstWallet", NoOrigin) EXCEPT
               !.kind = "value",
               !.wallets = IF containerObject.wallets = <<>> THEN <<>>
                           ELSE <<Head(containerObject.wallets)>>]
  /\ UNCHANGED containerObject
  /\ ContainerFrame

\* Array.prototype.find with the address test of getWalletByAddress; the
\* wallet found, as a one-element sequence, or <<>> for null
find(wallets, address) ==
  LET hits == {i \in 1..Len(wallets) : toLowerCase(wallets[i].address) = toLowerCase(address)} IN
  IF hits = {} THEN <<>> ELSE <<wallets[CHOOSE i \in hits : \A j \in hits : i <= j]>>

\* container.getWalletByAddress(address)
getWalletByAddress(address) ==
  /\ containerObject.exists
  /\ ret' = [Call("getWalletByAddress", NoOrigin) EXCEPT
               !.kind = "value", !.address = address,
               !.wallets = find(containerObject.wallets, address)]
  /\ UNCHANGED containerObject
  /\ ContainerFrame

\* walletToObject of a wallet of the container (a plain object, never an
\* ethers.Wallet, so the name is kept)
walletToObject(wallet) ==
  BareWallet(wallet.address, wallet.privateKey, wallet.mnemonic, wallet.name)

\* container.toPlainObject()
toPlainObject ==
  /\ containerObject.exists
  /\ ret' = [Call("toPlainObject", NoOrigin) EXCEPT
               !.kind = "value", !.str = containerObject.seedType,
               !.wallets = [i \in 1..Len(containerObject.wallets) |->
                              walletToObject(containerObject.wallets[i])]]
  /\ UNCHANGED containerObject
  /\ ContainerFrame

\* a container of the same seed type is constructed from the wallets of the
\* plain object just taken
restoreFromPlainObject ==
  /\ ret.m = "toPlainObject"
  /\ IF ret.str = SeedMnemonic
     THEN \E random \in RandomMnemonics : newMnemonicWalletContainer(List(ret.wallets), random)
     ELSE newPrivateKeyWalletContainer(List(ret.wallets))

\* Model.renameAddress on the wallets of the container
renameWallet(address, name) ==
  /\ containerObject.exists
  /\ containerObject' = [containerObject EXCEPT !.wallets = RenameIn(@, address, name)]
  /\ ret' = [Call("renameAddress", NoOrigin) EXCEPT !.kind = "value", !.address = address]
  /\ ContainerFrame

-----------------------------------------------------------------------------
(* The controller after construction *)

\* what an earlier session may have left in the store: nothing, or the
\* record of an imported seed phrase with two wallets
PersistedRecord ==
  createOrUpdateRecord(NoRecord,
    [exists |-> TRUE, origin |-> "imported",
     walletContainer |-> Container(SeedMnemonic, <<AddrA, AddrB>>)])

\* Wallet.constructor(id, encryptionKey)
Init ==
  /\ id = WalletId
  /\ record = NoRecord
  /\ encryptionKey \in {"", "key"}
  /\ seedPhraseEncryptionKey = ""
  /\ timers = {}
  /\ seedPhraseExpiryTimerId = 0
  /\ reveal = NoReveal
  /\ switching = NoSwitch
  /\ containerObject = NoObject
  /\ walletStore = NoStore
  /\ pendingWallet = NoPending
  /\ store \in {StoreOf(rec) : rec \in {NoRecord, PersistedRecord}}
  /\ sync = IF encryptionKey = "" THEN "idle" ELSE "reading"
  /\ windows = <<>>
  /\ txp = NoTx
  /\ ret = NoRet

\* what a confirmation may resolve with: an owned address in its stored or
\* in another spelling, an address no wallet has, no address
Approvals == {"0xAa", "0xaa", "0xDd", NoAddress}

\* the accounts surface: eth_accounts, eth_requestAccounts and its
\* confirmation, with the permission and current-address edits of the UI
Next ==
  \/ updateCredentials(WalletId, "key", "skey")
  \/ syncWithWalletStore
  \/ \E a \in {"0xAa", "0xBb", "0xDd"} : setCurrentAddress(INTERNAL_ORIGIN, a)
  \/ \E o \in WebOrigins, a \in {NoAddress, "0xAa"} :
       removePermissionCall(INTERNAL_ORIGIN, o, a)
  \/ removeAllOriginPermissionsCall(INTERNAL_ORIGIN)
  \/ \E ctx \in Contexts : eth_accounts(ctx)
  \/ \E ctx \in Contexts : eth_requestAccounts(ctx)
  \/ \E i \in 1..Len(windows), a \in Approvals :
       requestAccountsOnResolve(i, a)
  \/ \E i \in 1..Len(windows) : onDismiss(i)

Spec == Init /\ [][Next]_vars

-----------------------------------------------------------------------------
(* The signing requests of dApps, over a store that may already hold a grant *)

\* the record persisted by a session in which https://example.com was
\* granted AddrA
GrantedRecord == addPermission(PersistedRecord, AddrA, "https://example.com")

InitUnlocked ==
  /\ id = WalletId
  /\ record = NoRecord
  /\ encryptionKey = "key"
  /\ seedPhraseEncryptionKey = ""
  /\ timers = {}
  /\ seedPhraseExpiryTimerId = 0
  /\ reveal = NoReveal
  /\ switching = NoSwitch
  /\ containerObject = NoObject
  /\ walletStore = NoStore
  /\ pendingWallet = NoPending
  /\ store \in {StoreOf(rec) : rec \in {NoRecord, PersistedRecord, GrantedRecord}}
  /\ sync = "reading"
  /\ windows = <<>>
  /\ txp = NoTx
  /\ ret = NoRet

TxParams == {NoTxParam, TxParam("0xAa", "", FALSE), TxParam("0xBb", "", FALSE)}

NextSign ==
  \/ syncWithWalletStore
  \/ \E a \in {"0xAa", "0xBb"} : setCurrentAddress(INTERNAL_ORIGIN, a)
  \/ \E ctx \in Contexts, tx \in TxParams : eth_sendTransaction(ctx, tx)
  \/ \E ctx \in Contexts, a \in {"0xAa", "0xaa", "0xDd"} : eth_signTypedData_v4(ctx, a)
  \/ \E ctx \in Contexts, a \in {NoAddress, "0xAa", "0xDd"} :
       \/ personal_sign(ctx, TRUE, a)
       \/ a = NoAddress /\ personal_sign(ctx, FALSE, a)
  \/ \E ctx \in WebOrigins : eth_requestAccounts(ctx)
  \/ \E i \in 1..Len(windows) : requestAccountsOnResolve(i, "0xAa")
  \/ \E i \in 1..Len(windows) : signOnResolve(i)
  \/ \E i \in 1..Len(windows) : onDismiss(i)

SpecSign == InitUnlocked /\ [][NextSign]_vars

-----------------------------------------------------------------------------
(* The internal methods, called by the UI and by others *)

InternalContexts == {INTERNAL_ORIGIN, "https://example.com", NoOrigin}
\* a transaction of an address the wallet does not hold
UiTx == TxParam("0xDd", "", TRUE)

NextInternal ==
  \/ updateCredentials(WalletId, "key", "skey")
  \/ syncWithWalletStore
  \/ revealSettle
  \/ \E ctx \in InternalContexts :
       \/ getRecoveryPhrase(ctx, "gM")
       \/ verifyRecoveryPhrase(ctx, "gM", "phrase")
       \/ getPrivateKey(ctx, AddrA)
       \/ verifyPrivateKey(ctx, AddrA, "wrong")
       \/ renameWalletGroupCall(ctx, "gM", "")
       \/ renameAddressCall(ctx, AddrA, "")
       \/ removeAddressCall(ctx, AddrB)
       \/ removeWalletGroupCall(ctx, "gM")
       \/ removePermissionCall(ctx, "https://example.com", AddrA)
       \/ removeAllOriginPermissionsCall(ctx)
       \/ setPreferenceCall(ctx, "p")
       \/ setCurrentAddress(ctx, AddrB)
       \/ switchChainForOrigin(ctx, Polygon, "https://example.com")
       \/ requestChainForOrigin(ctx, "https://example.com")
       \/ signAndSendTransaction(ctx, UiTx, "https://example.com")
       \/ personalSign(ctx, TRUE)
       \/ signTypedData_v4(ctx, TRUE)

SpecInternal == InitUnlocked /\ [][NextInternal]_vars

-----------------------------------------------------------------------------
(* Transactions sent from the UI, interleaved with address and chain changes *)

TxInputs ==
  {NoTxParam} \cup
  {TxParam(f, c, g) : f \in {NoAddress, "0xAa", "0xaa", "0xBb"},
                      c \in {"", "0x1", "0x89"}, g \in BOOLEAN}

NextTx ==
  \/ syncWithWalletStore
  \/ \E a \in {"0xAa", "0xBb"} : setCurrentAddress(INTERNAL_ORIGIN, a)
  \/ \E chain \in Chains : switchChainForOrigin(INTERNAL_ORIGIN, chain, "https://example.com")
  \/ \E ctx \in {INTERNAL_ORIGIN, INTERNAL_ORIGIN_SYMBOL}, tx \in TxInputs :
       signAndSendTransaction(ctx, tx, "https://example.com")
  \/ sendTransactionChainId
  \/ \E ok \in BOOLEAN : sendTransactionGasPrice(ok)
  \/ sendTransactionProvider
  \/ \E ok \in BOOLEAN : sendTransactionResponse(ok)

SpecTx == InitUnlocked /\ [][NextTx]_vars

-----------------------------------------------------------------------------
(* allowedOrigin asked about every context, while grants come and go *)

NextAllowed ==
  \/ syncWithWalletStore
  \/ \E ctx \in Contexts, a \in {"0xAa", "0xaa", "0xDd"} : callAllowedOrigin(ctx, a)
  \/ \E o \in WebOrigins : removePermissionCall(INTERNAL_ORIGIN, o, "0xAa")
  \/ \E o \in WebOrigins : switchChainForOrigin(INTERNAL_ORIGIN, Polygon, o)
  \/ \E o \in WebOrigins : eth_requestAccounts(o)
  \/ \E i \in 1..Len(windows), a \in {"0xAa", "0xaa"} : requestAccountsOnResolve(i, a)
  \/ \E i \in 1..Len(windows) : onDismiss(i)

SpecAllowed == InitUnlocked /\ [][NextAllowed]_vars

-----------------------------------------------------------------------------
(* The session key: set, used by the UI, and expiring *)

NextReveal ==
  \/ \E seedKey \in {"skey", ""} : updateCredentials(WalletId, "key", seedKey)
  \/ syncWithWalletStore
  \/ seedPhraseExpiryTimer
  \/ \E g \in {"gM", "gP"} : getRecoveryPhrase(INTERNAL_ORIGIN, g)
  \/ \E v \in {"phrase", "wrong"} : verifyRecoveryPhrase(INTERNAL_ORIGIN, "gM", v)
  \/ \E a \in {AddrA, "0xDd"} : getPrivateKey(INTERNAL_ORIGIN, a)
  \/ \E v \in {"privateKey", "wrong"} : verifyPrivateKey(INTERNAL_ORIGIN, AddrA, v)
  \/ revealSettle
  \/ uiGenerateMnemonic
  \/ savePendingWallet

SpecReveal == InitUnlocked /\ [][NextReveal]_vars

-----------------------------------------------------------------------------
(* Chains per origin: asked and switched by dApps, switched by the UI *)

ChainIdParameters == {"0x1", "0x89", "0x089"}

NextChain ==
  \/ syncWithWalletStore
  \/ setCurrentAddress(INTERNAL_ORIGIN, "0xBb")
  \/ removePermissionCall(INTERNAL_ORIGIN, "https://example.com", "0xAa")
  \/ switchChainForOrigin(INTERNAL_ORIGIN, Polygon, "https://dapp.org")
  \/ \E ctx \in Contexts : eth_chainId(ctx)
  \/ \E ctx \in Contexts : net_version(ctx)
  \/ \E ctx \in Contexts, p \in ChainIdParameters : wallet_switchEthereumChain(ctx, p)
  \/ switchEthereumChainChainId
  \/ switchEthereumChainNetworks

SpecChain == InitUnlocked /\ [][NextChain]_vars

-----------------------------------------------------------------------------
(* The chain of an origin: set by the UI, read back by the UI and by dApps *)

NextChainForOrigin ==
  \/ syncWithWalletStore
  \/ \E ctx \in {INTERNAL_ORIGIN, "https://example.com"}, chain \in Chains, origin \in WebOrigins :
       switchChainForOrigin(ctx, chain, origin)
  \/ \E ctx \in {INTERNAL_ORIGIN, "https://example.com"}, origin \in WebOrigins :
       requestChainForOrigin(ctx, origin)
  \/ \E ctx \in WebOrigins : eth_chainId(ctx)

SpecChainForOrigin == InitUnlocked /\ [][NextChainForOrigin]_vars

-----------------------------------------------------------------------------
(* Pending wallets: staged by the UI, committed by savePendingWallet *)

NextPending ==
  \/ \E seedKey \in {"skey", ""} : updateCredentials(WalletId, "key", seedKey)
  \/ syncWithWalletStore
  \/ seedPhraseExpiryTimer
  \/ uiGenerateMnemonic
  \/ uiImportPrivateKey
  \/ uiImportSeedPhrase(<<AddrA, AddrB>>)
  \/ savePendingWallet
  \/ \E address \in {AddrG, AddrP, "0xDd"} : uiGetWalletByAddress(INTERNAL_ORIGIN, address)
  \/ \E address \in {AddrA, AddrG} : setCurrentAddress(INTERNAL_ORIGIN, address)

SpecPending == InitUnlocked /\ [][NextPending]_vars

-----------------------------------------------------------------------------
(* The record and the store: writes that fail, reads that overlap *)

\* the edits of the record the UI makes
RecordEdits ==
  \/ \E address \in {AddrA, AddrB} : setCurrentAddress(INTERNAL_ORIGIN, address)
  \/ switchChainForOrigin(INTERNAL_ORIGIN, Polygon, "https://dapp.org")
  \/ removePermissionCall(INTERNAL_ORIGIN, "https://example.com", "0xAa")
  \/ setPreferenceCall(INTERNAL_ORIGIN, "p")
  \/ uiImportPrivateKey
  \/ savePendingWallet

NextStore ==
  \/ syncWithWalletStore
  \/ walletStoreFailure
  \/ RecordEdits

SpecStore == InitUnlocked /\ [][NextStore]_vars

NextSync ==
  \/ updateCredentials(WalletId, "key", "skey")
  \/ walletStoreRead
  \/ syncWithWalletStore
  \/ \E address \in {AddrA, AddrB} : setCurrentAddress(INTERNAL_ORIGIN, address)
  \/ switchChainForOrigin(INTERNAL_ORIGIN, Polygon, "https://dapp.org")

SpecSync == InitUnlocked /\ [][NextSync]_vars

-----------------------------------------------------------------------------
(* The session key: set by updateCredentials, cleared, expired, used *)

NextSessionKey ==
  \/ \E seedKey \in {"skey", ""} : updateCredentials(WalletId, "key", seedKey)
  \/ syncWithWalletStore
  \/ seedPhraseExpiryTimer
  \/ removeSeedPhraseEncryptionKey
  \/ uiGenerateMnemonic
  \/ uiImportPrivateKey
  \/ savePendingWallet
  \/ removePermissionCall(INTERNAL_ORIGIN, "https://example.com", AddrA)
  \/ setPreferenceCall(INTERNAL_ORIGIN, "p")

SpecSessionKey == InitUnlocked /\ [][NextSessionKey]_vars

-----------------------------------------------------------------------------
(* eth_requestAccounts and the gateway that calls back, sooner or later *)

NextRequest ==
  \/ syncWithWalletStore
  \/ \E address \in {AddrA, AddrB} : setCurrentAddress(INTERNAL_ORIGIN, address)
  \/ removePermissionCall(INTERNAL_ORIGIN, "https://example.com", AddrA)
  \/ \E ctx \in WebOrigins : eth_requestAccounts(ctx)
  \/ \E i \in 1..Len(windows), address \in Approvals : requestAccountsOnResolve(i, address)
  \/ \E i \in 1..Len(windows) : onDismiss(i)

\* the gateway calls one of the two callbacks of a confirmation it opened
GatewayCallback ==
  \E i \in 1..Len(windows) :
    \/ \E address \in Approvals : requestAccountsOnResolve(i, address)
    \/ onDismiss(i)

\* the store answers the read, the gateway calls back
SpecRequest ==
  /\ InitUnlocked /\ [][NextRequest]_vars
  /\ WF_vars(syncWithWalletStore) /\ WF_vars(GatewayCallback)

-----------------------------------------------------------------------------
(* wallet_requestPermissions: asked by dApps, approved or dismissed *)

\* params that ask for eth_accounts, for something else, for nothing
PermissionParams == {<<{"eth_accounts"}>>, <<{"eth_chainId"}>>, <<>>}

NextPermissions ==
  \/ syncWithWalletStore
  \/ setCurrentAddress(INTERNAL_ORIGIN, AddrB)
  \/ removePermissionCall(INTERNAL_ORIGIN, "https://example.com", AddrA)
  \/ \E ctx \in WebOrigins, params \in PermissionParams : wallet_requestPermissions(ctx, params)
  \/ \E i \in 1..Len(windows), address \in Approvals : requestPermissionsOnResolve(i, address)
  \/ \E i \in 1..Len(windows) : onDismiss(i)

SpecPermissions == InitUnlocked /\ [][NextPermissions]_vars

-----------------------------------------------------------------------------
(* Credentials: keys that do not decrypt the record, ids that change *)

\* Wallet.constructor(id, encryptionKey) with the right key or a wrong one
InitDecrypt ==
  /\ id = WalletId
  /\ record = NoRecord
  /\ encryptionKey \in {"key", "bad"}
  /\ seedPhraseEncryptionKey = ""
  /\ timers = {}
  /\ seedPhraseExpiryTimerId = 0
  /\ reveal = NoReveal
  /\ switching = NoSwitch
  /\ containerObject = NoObject
  /\ walletStore = NoStore
  /\ pendingWallet = NoPending
  /\ store = StoreOf(PersistedRecord)
  /\ sync = "reading"
  /\ windows = <<>>
  /\ txp = NoTx
  /\ ret = NoRet

NextDecrypt ==
  \/ \E key \in {"key", "bad"} : verifyCredentials(WalletId, key)
  \/ \E key \in {"key", "bad"} : updateCredentials(WalletId, key, "skey")
  \/ syncWithWalletStore
  \/ \E address \in {AddrA, AddrB} : setCurrentAddress(INTERNAL_ORIGIN, address)
  \/ switchChainForOrigin(INTERNAL_ORIGIN, Polygon, "https://dapp.org")

SpecDecrypt == InitDecrypt /\ [][NextDecrypt]_vars

\* the key of each wallet id
KeyOf(walletId) == IF walletId = WalletId THEN "key" ELSE "key2"

NextIds ==
  \/ \E newId \in Ids : updateCredentials(newId, KeyOf(newId), "skey")
  \/ syncWithWalletStore
  \/ \E address \in {AddrA, AddrB} : setCurrentAddress(INTERNAL_ORIGIN, address)
  \/ uiImportPrivateKey
  \/ savePendingWallet

SpecIds == InitUnlocked /\ [][NextIds]_vars

-----------------------------------------------------------------------------
(* The events of the edits: permissions, chains, the current address *)

NextEvents ==
  \/ syncWithWalletStore
  \/ \E ctx \in {INTERNAL_ORIGIN, "https://example.com"}, address \in {AddrA, AddrB, "0xDd"} :
       setCurrentAddress(ctx, address)
  \/ \E ctx \in {INTERNAL_ORIGIN, "https://example.com"}, address \in {NoAddress, AddrA} :
       removePermissionCall(ctx, "https://example.com", address)
  \/ \E ctx \in {INTERNAL_ORIGIN, "https://example.com"} : removeAllOriginPermissionsCall(ctx)
  \/ \E ctx \in {INTERNAL_ORIGIN, "https://example.com"}, chain \in Chains :
       switchChainForOrigin(ctx, chain, "https://dapp.org")
  \/ eth_requestAccounts("https://example.com")
  \/ \E i \in 1..Len(windows), address \in Approvals : requestAccountsOnResolve(i, address)

SpecEvents == InitUnlocked /\ [][NextEvents]_vars

-----------------------------------------------------------------------------
(* The wallet containers on their own: construction, addWallet, removeWallet *)

\* descriptors with one field only
OnlyPrivateKey(k) == BareWallet("", k, "", "")
OnlyMnemonic(m) == BareWallet("", "", m, "")
\* the lists handed to new PrivateKeyWalletContainer
PrivateKeyLists ==
  {NoList, List(<<>>), List(<<OnlyPrivateKey("k1")>>), List(<<OnlyMnemonic("m1")>>),
   List(<<OnlyPrivateKey("k1"), OnlyPrivateKey("k2")>>)}
\* the lists handed to new MnemonicWalletContainer
MnemonicLists ==
  {NoList, List(<<>>), List(<<OnlyMnemonic("m1")>>),
   List(<<BareWallet("0xAa", "k1", "m1", "main")>>),
   List(<<BareWallet("", "k1", "m1", "")>>),
   List(<<OnlyMnemonic("m1"), OnlyPrivateKey("k2")>>),
   List(<<OnlyMnemonic("m2"), OnlyMnemonic("m1")>>),
   List(<<BareWallet("0xAa", "k1", "m1", ""), BareWallet("0xBb", "k2", "m1", "")>>)}
\* the wallets handed to addWallet
AddedWallets ==
  {fromMnemonic("m2"), BareWallet("0xaa", "k1", "m1", ""), ethersWallet("k3")}

NextContainer ==
  \/ \E wallets \in PrivateKeyLists : newPrivateKeyWalletContainer(wallets)
  \/ \E wallets \in MnemonicLists, random \in RandomMnemonics :
       newMnemonicWalletContainer(wallets, random)
  \/ \E wallet \in AddedWallets : addWallet(wallet)
  \/ \E address \in AddrInputs : removeWallet(address)
  \/ getFirstWallet
  \/ \E address \in AddrInputs : getWalletByAddress(address)
  \/ toPlainObject
  \/ restoreFromPlainObject
  \/ renameWallet(AddrA, "main")

\* no controller state takes part: nothing is stored and no container exists
InitContainer == InitUnlocked /\ stored = NoRecord
SpecContainer == InitContainer /\ [][NextContainer]_vars

-----------------------------------------------------------------------------
(* Properties of the accounts surface *)

\* the permission entry of origin o lists address a (in this spelling)
Lists(rec, o, a) == rec.exists /\ a # NoAddress /\ a \in rec.permissions[o].addresses
\* what eth_accounts answers origin o over a record
AccountsFor(rec, o) == ethAccounts(NoRet, rec, o).accounts
\* every variable but ret keeps its value
NoEffect == UNCHANGED <<record, id, encryptionKey, seedPhraseEncryptionKey, timers, seedPhraseExpiryTimerId, reveal, switching, containerObject, walletStore,
                        pendingWallet, store, sync, windows, txp>>

\* C1: eth_accounts called by a web origin O returns [currentAddress] when
\* the permission entry of O lists the current address and [] in every
\* other case (no record, no current address, no entry, entry without it);
\* it never returns another address.
C1_EthAccountsOnlyPermitted ==
  (ret.m = "eth_accounts" /\ ret.ctx \in WebOrigins) =>
    /\ ret.kind = "value"
    /\ ret.accounts = IF Lists(record, ret.ctx, record.currentAddress)
                        THEN <<record.currentAddress>> ELSE <<>>
C1_Witness ==
  /\ ret.m = "eth_accounts" /\ ret.ctx \in WebOrigins
  /\ ret.accounts = <<record.currentAddress>>
  /\ \E o \in WebOrigins : o # ret.ctx /\ ~Lists(record, o, record.currentAddress)

\* C2 as stated: once an approval has given O the current address, every
\* step that keeps the permission entry of O leaves eth_accounts of O
\* answering [currentAddress].
C2_Original ==
  [][\A o \in WebOrigins :
       (/\ AccountsFor(record, o) = <<record.currentAddress>>
        /\ record'.exists
        /\ record'.permissions[o] = record.permissions[o])
       => AccountsFor(record', o) = <<record'.currentAddress>>]_vars

\* C2 amended: eth_requestAccounts from a web origin O that is not permitted
\* for the current address opens exactly one confirmation and changes nothing
\* else; an approval is taken exactly when it names an address that is the
\* current one up to letter case or is owned by the record, it makes that
\* address current and lists it for O; and eth_accounts of O keeps answering
\* [currentAddress] over every step that keeps both the entry of O and the
\* current address.
C2_RequestThenApproval ==
  [][/\ (/\ ret'.m = "eth_requestAccounts" /\ ret'.ctx \in WebOrigins
         /\ ~Lists(record, ret'.ctx, record.currentAddress))
        => /\ AccountsFor(record, ret'.ctx) = <<>>
           /\ ret'.kind = "pending" /\ ret'.opened = 1
           /\ windows' = Append(windows, Window("/requestAccounts", ret'.ctx))
           /\ record' = record /\ stored' = stored
     /\ (ret'.m = "onResolve/requestAccounts" /\ ret'.ctx \in WebOrigins)
        => /\ ret'.kind = "value" <=>
                /\ ret'.address # NoAddress
                /\ readCurrentAddress(record) # NoAddress
                /\ \/ normalizeAddress(ret'.address) = normalizeAddress(record.currentAddress)
                   \/ OwnsAddress(record, ret'.address)
           /\ ret'.kind = "value" =>
                /\ Lists(record', ret'.ctx, ret'.address)
                /\ normalizeAddress(record'.currentAddress) = normalizeAddress(ret'.address)
                /\ ret'.accounts = AccountsFor(record', ret'.ctx)
                /\ record'.currentAddress = ret'.address
                   => ret'.accounts = <<ret'.address>>
           /\ ret'.kind # "value" => record' = record /\ stored' = stored
     /\ \A o \in WebOrigins :
          (/\ AccountsFor(record, o) = <<record.currentAddress>>
           /\ record'.exists
           /\ record'.permissions[o] = record.permissions[o]
           /\ record'.currentAddress = record.currentAddress)
          => AccountsFor(record', o) = <<record'.currentAddress>>]_vars
C2_Witness ==
  /\ ret.m = "onResolve/requestAccounts" /\ ret.ctx \in WebOrigins
  /\ ret.kind = "value"
  /\ ret.accounts = <<record.currentAddress>>
  /\ ret.events = <<"currentAddressChange", "permissionsUpdated">>

\* C3: eth_requestAccounts from an origin that already holds permission for
\* the current address returns [currentAddress] at once: no confirmation is
\* opened, no variable of the controller changes, nothing is saved and no
\* event is emitted.
C3_RequestAccountsWhenPermitted ==
  [][(/\ ret'.m = "eth_requestAccounts" /\ ret'.ctx \in WebOrigins
      /\ Lists(record, ret'.ctx, record.currentAddress))
     => /\ ret'.kind = "value"
        /\ ret'.accounts = <<record.currentAddress>>
        /\ ret'.opened = 0 /\ ~ret'.saved /\ ret'.events = <<>>
        /\ NoEffect]_vars
C3_Witness ==
  /\ ret.m = "eth_requestAccounts" /\ ret.ctx \in WebOrigins
  /\ ret.kind = "value" /\ ret.accounts = <<record.currentAddress>>
  /\ Lists(record, ret.ctx, record.currentAddress)

\* C7: for a context whose origin is INTERNAL_ORIGIN, allowedOrigin returns
\* true for every address and every record, a null record and addresses
\* granted to nobody included.
C7_InternalAlwaysAllowed ==
  (ret.m = "allowedOrigin" /\ ret.ctx = INTERNAL_ORIGIN) =>
    ret.kind = "value" /\ ret.str = "true"
C7_Witness ==
  /\ ret.m = "allowedOrigin" /\ ret.ctx = INTERNAL_ORIGIN /\ ret.str = "true"
  /\ ~record.exists
  /\ ret.address = "0xDd"

\* C8: for an origin O other than INTERNAL_ORIGIN, allowedOrigin({origin: O}, A)
\* is true exactly when the record's permission entry of O lists A; without
\* a record or an entry it is false, and without an origin it throws.
C8_AllowedIffListed ==
  (ret.m = "allowedOrigin" /\ ret.ctx # INTERNAL_ORIGIN) =>
    IF ret.ctx = NoOrigin THEN ret.kind = "error"
    ELSE /\ ret.kind = "value"
         /\ ret.str = "true" <=>
              (ret.ctx \in PermOrigins /\ Lists(record, ret.ctx, ret.address))
         /\ ret.str # "true" => ret.str = "false"
C8_Witness ==
  /\ ret.m = "allowedOrigin" /\ ret.ctx \in WebOrigins /\ ret.str = "true"
  /\ \E a \in AddrInputs : a # ret.address /\ ~Lists(record, ret.ctx, a)

-----------------------------------------------------------------------------
(* Properties of the signing requests *)

SigningRequests == {"eth_sendTransaction", "personal_sign", "eth_signTypedData_v4"}

\* C4: a signing request that carries its parameters, made by a web origin
\* that holds no permission for the current address, fails with
\* OriginNotAllowed and opens no confirmation.
C4_Claimed ==
  (/\ ret.m \in SigningRequests /\ ret.ctx \in WebOrigins
   /\ readCurrentAddress(record) # NoAddress
   /\ ~Lists(record, ret.ctx, record.currentAddress)
   /\ ret.err # "InvalidParams")
  => ret.kind = "error" /\ ret.err = "OriginNotAllowed" /\ ret.opened = 0

\* C5: eth_sendTransaction by a permitted web origin with a `from` that is
\* not the current address fails and opens no confirmation.
C5_Claimed ==
  (/\ ret.m = "eth_sendTransaction" /\ ret.ctx \in WebOrigins
   /\ Lists(record, ret.ctx, record.currentAddress)
   /\ ret.address # NoAddress
   /\ normalizeAddress(ret.address) # normalizeAddress(record.currentAddress))
  => ret.kind = "error" /\ ret.opened = 0

-----------------------------------------------------------------------------
(* Properties of the internal methods *)

InternalMethods ==
  {"getRecoveryPhrase", "verifyRecoveryPhrase", "getPrivateKey", "verifyPrivateKey",
   "renameWalletGroup", "renameAddress", "removeAddress", "removeWalletGroup",
   "removePermission", "removeAllOriginPermissions", "setPreference",
   "setCurrentAddress", "switchChainForOrigin", "requestChainForOrigin",
   "signAndSendTransaction", "personalSign", "signTypedData_v4"}

\* C6: every internal method called with a context whose origin is neither
\* INTERNAL_ORIGIN nor INTERNAL_ORIGIN_SYMBOL fails with OriginNotAllowed,
\* changes neither the record (permissions included), the session key nor
\* the persisted store, saves nothing and emits no event.
C6_InternalMethodsRefuseOthers ==
  [][(/\ ret'.m \in InternalMethods
      /\ ret'.ctx \notin {INTERNAL_ORIGIN, INTERNAL_ORIGIN_SYMBOL})
     => /\ ret'.kind = "error" /\ ret'.err = "OriginNotAllowed"
        /\ ~ret'.saved /\ ret'.events = <<>> /\ ret'.opened = 0
        /\ NoEffect]_vars
C6_Witness ==
  /\ ret.m = "getRecoveryPhrase" /\ ret.ctx \in WebOrigins
  /\ ret.err = "OriginNotAllowed"
  /\ seedPhraseEncryptionKey # "" /\ hasRecoveryPhrase(record, "gM")

-----------------------------------------------------------------------------
(* Properties of sendTransaction *)

\* C9: sendTransaction, reached through signAndSendTransaction from the UI,
\* fails when tx.from is missing, when there is no current address and when
\* tx.from differs from the current address other than by letter case; it
\* goes on to resolve the chain exactly when tx.from equals the current
\* address up to letter case.
C9_FromMustBeCurrent ==
  [][(/\ ret'.m = "signAndSendTransaction" /\ ret'.ctx = INTERNAL_ORIGIN
      /\ ret'.err # "InvalidParams")
     => LET from == ret'.address
            currentAddress == readCurrentAddress(record) IN
        IF from = NoAddress
          THEN ret'.kind = "error" /\ ret'.err = "FromMissing" /\ NoEffect
        ELSE IF currentAddress = NoAddress
          THEN ret'.kind = "error" /\ NoEffect
        ELSE IF normalizeAddress(from) # normalizeAddress(currentAddress)
          THEN ret'.kind = "error" /\ ret'.err = "FromMismatch" /\ NoEffect
        ELSE /\ ret'.kind = "suspended"
             /\ txp'.pc = "awaitChainId" /\ txp'.from = from]_vars
C9_Witness ==
  /\ ret.m = "signAndSendTransaction" /\ ret.kind = "suspended"
  /\ ret.address = "0xaa" /\ record.currentAddress = "0xAa"
  /\ txp.pc = "awaitChainId"

\* C10: resumed with the chain id resolved for the transaction's origin,
\* sendTransaction fails when tx.chainId is present and differs from it, and
\* the record (the origin's chain included) and the store stay as they are;
\* when tx.chainId is absent it is filled with the resolved chain id; and
\* whenever the transaction goes on, it is signed on the resolved chain.
C10_ChainIdChecked ==
  [][/\ (txp.pc = "awaitChainId" /\ txp'.pc # "awaitChainId")
        => IF txp.txChainId # "" /\ txp.txChainId # txp.chainId
             THEN /\ ret'.kind = "error" /\ ret'.err = "ChainMismatch"
                  /\ txp' = NoTx
                  /\ record' = record /\ stored' = stored
                  /\ ret'.events = <<>> /\ ~ret'.saved
             ELSE /\ ret'.err # "ChainMismatch"
                  /\ ret'.kind = "suspended" =>
                       /\ txp'.txChainId = txp.chainId
                       /\ txp'.filled <=> txp.txChainId = ""
                       /\ txp'.chainId = txp.chainId
     /\ txp'.pc \in {"awaitProvider", "awaitSend"}
        => txp'.signChain = txp'.chainId /\ txp'.txChainId = txp'.chainId
     /\ (ret'.m = "sendTransaction" /\ ret'.kind = "value")
        => ret'.str = txp.chainId]_vars
C10_Witness ==
  /\ ret.m = "sendTransaction" /\ ret.kind = "suspended"
  /\ txp.pc = "awaitProvider" /\ txp.filled
  /\ txp.signChain = "0x89" /\ txp.txChainId = "0x89"

-----------------------------------------------------------------------------
(* Properties of the session key *)

RevealMethods ==
  {"getRecoveryPhrase", "verifyRecoveryPhrase", "getPrivateKey", "verifyPrivateKey"}

\* C11: the expiry callback clears the session key and leaves the
\* encryption key and the record as they are; a cleared session key is set
\* again by updateCredentials only; and while it is cleared every
\* getPrivateKey and getRecoveryPhrase call of the internal origin over a
\* loaded record fails with SessionExpired.
C11_ExpiredKeyRefusesReveal ==
  [][/\ ret'.m = "seedPhraseExpiryTimer"
        => /\ seedPhraseEncryptionKey' = "" /\ ~timerArmed'
           /\ encryptionKey' = encryptionKey /\ record' = record
     /\ (seedPhraseEncryptionKey = "" /\ seedPhraseEncryptionKey' # "")
        => ret'.m = "updateCredentials"
     /\ (/\ seedPhraseEncryptionKey = "" /\ record.exists /\ reveal.pc = "idle"
         /\ ret'.m \in {"getPrivateKey", "getRecoveryPhrase"}
         /\ ret'.ctx = INTERNAL_ORIGIN)
        => /\ ret'.kind = "error" /\ ret'.err = "SessionExpired"
           /\ reveal' = reveal]_vars
C11_Witness ==
  /\ ret.m = "getPrivateKey" /\ ret.ctx = INTERNAL_ORIGIN
  /\ ret.err = "SessionExpired"
  /\ seedPhraseExpiryTimerId # 0 /\ ~timerArmed
  /\ encryptionKey = "key" /\ OwnsAddress(record, ret.address)

\* C12: a timer is set, and the pending one replaced, by updateCredentials
\* only; a reveal call, started or settled, leaves the timer, the session
\* key, the record and the store as they are.
C12_OnlyCredentialsRestartTimer ==
  [][/\ (\/ seedPhraseExpiryTimerId' # seedPhraseExpiryTimerId
         \/ timerArmed' /\ ~timerArmed)
        => ret'.m = "updateCredentials"
     /\ ret'.m \in RevealMethods
        => UNCHANGED <<seedPhraseExpiryTimerId, timers,
                       seedPhraseEncryptionKey, record, stored>>]_vars
C12_Witness ==
  /\ ret.m = "getRecoveryPhrase" /\ ret.kind = "value" /\ ret.str = "phrase"
  /\ timerArmed /\ seedPhraseEncryptionKey # ""

\* C13: a reveal call is taken in flight only in a step that finds the
\* session key set, and that step hands the key to the model function; a
\* call in flight settles with what the model function found whether the
\* timer has fired since or not; a secret is returned by a call in flight
\* only; and a call started with the key cleared fails with SessionExpired.
C13_CheckedWhenStarted ==
  [][/\ (reveal.pc = "idle" /\ reveal'.pc = "awaitModel")
        => /\ seedPhraseEncryptionKey # ""
           /\ seedPhraseEncryptionKey' = seedPhraseEncryptionKey
           /\ ret'.kind = "suspended" /\ reveal'.call.m = ret'.m
     /\ (reveal.pc = "awaitModel" /\ reveal'.pc = "idle")
        => /\ ret'.m = reveal.call.m
           /\ IF reveal.found
                THEN ret'.kind = "value" /\ ret'.str = reveal.value
                ELSE ret'.kind = "error" /\ ret'.err = "NotFound"
     /\ (ret'.m \in RevealMethods /\ ret'.kind = "value")
        => reveal.pc = "awaitModel" /\ reveal'.pc = "idle"
     /\ (/\ ret'.m \in RevealMethods /\ reveal.pc = "idle"
         /\ seedPhraseEncryptionKey = "")
        => ret'.kind = "error" /\ reveal' = reveal]_vars
C13_Witness ==
  /\ ret.m = "getPrivateKey" /\ ret.kind = "value" /\ ret.str = "privateKey"
  /\ seedPhraseEncryptionKey = "" /\ ~timerArmed /\ seedPhraseExpiryTimerId # 0
  /\ pendingWallet = NoPending

-----------------------------------------------------------------------------
(* Properties of the confirmations *)

Routes == {"/requestAccounts", "/sendTransaction", "/signMessage"}

\* C14: the dismissal of a confirmation rejects the call that opened it,
\* with UserRejected for eth_requestAccounts and UserRejectedTxSignature for
\* eth_sendTransaction, personal_sign and eth_signTypedData_v4, and changes
\* neither the record (permissions included) nor the store; and a
\* confirmation leaves the pending ones only by its onResolve or onDismiss.
C14_DismissalRejects ==
  [][/\ \A route \in Routes :
          ret'.m = "onDismiss" \o route
          => /\ ret'.kind = "error"
             /\ ret'.err = IF route = "/requestAccounts"
                             THEN "UserRejected" ELSE "UserRejectedTxSignature"
             /\ \E i \in 1..Len(windows) :
                  /\ windows[i] = Window(route, ret'.ctx)
                  /\ windows' = RemoveAt(windows, i)
             /\ record' = record /\ stored' = stored
             /\ ~ret'.saved /\ ret'.events = <<>>
     /\ (windows' # windows /\ Len(windows') <= Len(windows))
        => \E route \in Routes : ret'.m \in {"onDismiss" \o route, "onResolve" \o route}
     /\ Len(windows') > Len(windows) => ret'.kind = "pending"]_vars
C14_Witness ==
  /\ ret.m = "onDismiss/requestAccounts" /\ ret.err = "UserRejected"
  /\ ret.ctx \in WebOrigins /\ record.exists
  /\ record.permissions[ret.ctx].addresses = {}
  /\ windows = <<>>

-----------------------------------------------------------------------------
(* Properties of the chains *)

\* a step that is a call of wallet_switchEthereumChain, not a resumption
SwitchStarts ==
  /\ ret'.m = "wallet_switchEthereumChain"
  /\ switching.pc = "idle" \/ switching' = switching
\* the chain the record keeps for origin o
ChainOf(rec, o) == rec.permissions[o].chain

\* C15: wallet_switchEthereumChain called by a web origin without permission
\* for the current address fails with OriginNotAllowed and changes nothing;
\* called by a permitted one it is taken without a confirmation, and when
\* the requested chain id differs from the one resolved for the origin it
\* sets the origin's chain to the requested chain, emits chainChanged once
\* and leaves every other origin's entry as it is.
C15_SwitchChainForPermitted ==
  [][/\ (/\ SwitchStarts /\ ret'.ctx \in WebOrigins
         /\ readCurrentAddress(record) # NoAddress)
        => IF ~Lists(record, ret'.ctx, record.currentAddress)
             THEN /\ ret'.kind = "error" /\ ret'.err = "OriginNotAllowed"
                  /\ NoEffect
             ELSE switching.pc = "idle"
                  => /\ ret'.kind = "suspended"
                     /\ switching' = [pc |-> "awaitChainId", ctx |-> ret'.ctx,
                                      chainId |-> hexValue(ret'.str),
                                      current |-> getChainIdForOrigin(record, ret'.ctx)]
                     /\ record' = record /\ stored' = stored
     /\ (switching.pc = "awaitChainId" /\ switching' # switching
         /\ switching.chainId # switching.current)
        => /\ switching' = [switching EXCEPT !.pc = "awaitNetworks"]
           /\ record' = record /\ stored' = stored /\ ret'.events = <<>>
     /\ (switching.pc = "awaitNetworks" /\ switching' # switching /\ record.exists)
        => /\ switching' = NoSwitch
           /\ ret'.kind = "value" /\ ret'.str = "null"
           /\ ret'.events = <<"chainChanged">>
           /\ ChainOf(record', switching.ctx) = getChainById(switching.chainId)
           /\ record' = setChainForOriginModel(record, ChainOf(record', switching.ctx),
                                               switching.ctx)
           /\ \A o \in PermOrigins \ {switching.ctx} :
                record'.permissions[o] = record.permissions[o]
     /\ ret'.m = "wallet_switchEthereumChain"
        => windows' = windows /\ ret'.opened = 0]_vars
C15_Witness ==
  /\ ret.m = "wallet_switchEthereumChain" /\ ret.ctx = "https://example.com"
  /\ ret.events = <<"chainChanged">>
  /\ ChainOf(record, "https://example.com") = Polygon
  /\ ChainOf(record, "https://dapp.org") = NoChain

\* C16: wallet_switchEthereumChain to the chain id that was resolved for the
\* calling origin returns null and changes nothing: the record and the
\* store stay as they are, nothing is saved and no event is emitted.
C16_SwitchToSameChainIsNoOp ==
  [][(/\ switching.pc = "awaitChainId" /\ switching' # switching
      /\ switching.chainId = switching.current)
     => /\ switching' = NoSwitch
        /\ ret'.m = "wallet_switchEthereumChain" /\ ret'.ctx = switching.ctx
        /\ ret'.kind = "value" /\ ret'.str = "null"
        /\ ~ret'.saved /\ ret'.events = <<>> /\ ret'.opened = 0
        /\ UNCHANGED <<record, stored, windows, encryptionKey,
                       seedPhraseEncryptionKey, pendingWallet>>]_vars
C16_Witness ==
  /\ ret.m = "wallet_switchEthereumChain" /\ ret.kind = "value"
  /\ ret.events = <<>>
  /\ ret.ctx \in WebOrigins
  /\ ChainOf(record, ret.ctx) = Polygon
  /\ switching = NoSwitch

\* C17: eth_chainId answers every origin, permitted or not, with the chain
\* id of the chain the record keeps for it and with 0x1 when there is no
\* record or no chain for the origin; net_version answers with the same id
\* in decimal; both fail only without an origin and change nothing.
C17_ChainIdForAnyOrigin ==
  [][ret'.m \in {"eth_chainId", "net_version"}
     => LET o == ret'.ctx
            chainId == IF record.exists /\ o \in PermOrigins /\ ChainOf(record, o) # NoChain
                    THEN getChainId(ChainOf(record, o)) ELSE "0x1" IN
        /\ NoEffect
        /\ IF o = NoOrigin THEN ret'.kind = "error"
           ELSE /\ ret'.kind = "value"
                /\ ret'.m = "eth_chainId" => ret'.str = chainId
                /\ ret'.m = "net_version"
                   => ret'.str = IF chainId = "0x1" THEN "1" ELSE "137"]_vars
C17_Witness ==
  /\ ret.m = "net_version" /\ ret.str = "137"
  /\ ret.ctx \in WebOrigins
  /\ record.permissions[ret.ctx].addresses = {}

-----------------------------------------------------------------------------
(* Properties of the wallet containers *)

\* the container is of the privateKey type
IsPrivateKeyContainer(c) == c.exists /\ c.seedType = SeedPrivateKey

\* C18: a privateKey container with its one wallet still has exactly one
\* wallet after any addWallet or removeWallet call, and every addWallet call
\* on a privateKey container fails and leaves the wallets as they were.
C18_Claimed ==
  [][ret'.m \in {"addWallet", "removeWallet"} /\ IsPrivateKeyContainer(containerObject)
       /\ Len(containerObject.wallets) = 1
     => /\ IsPrivateKeyContainer(containerObject')
        /\ Len(containerObject'.wallets) = 1
        /\ ret'.m = "addWallet" => ret'.kind = "error" /\ UNCHANGED containerObject]_vars

\* C19: new PrivateKeyWalletContainer yields a container, holding one wallet,
\* exactly when it is given a list of one descriptor that has a private key;
\* a missing list, an empty list and a longer list fail and yield none.
C19_Claimed ==
  ret.m = "new PrivateKeyWalletContainer"
  => LET one == ret.str = "list" /\ Len(ret.arg) = 1 /\ ret.arg[1].privateKey # "" IN
     IF one THEN /\ ret.kind = "value"
                 /\ IsPrivateKeyContainer(containerObject)
                 /\ Len(containerObject.wallets) = 1
                 /\ containerObject.wallets[1].privateKey = ret.arg[1].privateKey
     ELSE ret.kind = "error" /\ ~containerObject.exists

\* C20: new MnemonicWalletContainer, given a non-empty list, fails when a
\* descriptor has no mnemonic and otherwise yields one wallet per descriptor,
\* in the order given, each carrying the mnemonic of its descriptor; given no
\* descriptors it yields exactly one wallet, which carries a mnemonic.
C20_Claimed ==
  ret.m = "new MnemonicWalletContainer"
  => IF ret.str = "list" /\ ret.arg # <<>>
     THEN IF \E i \in 1..Len(ret.arg) : ret.arg[i].mnemonic = ""
          THEN ret.kind = "error" /\ ~containerObject.exists
          ELSE /\ ret.kind = "value"
               /\ containerObject.exists /\ containerObject.seedType = SeedMnemonic
               /\ Len(containerObject.wallets) = Len(ret.arg)
               /\ \A i \in 1..Len(ret.arg) :
                    /\ containerObject.wallets[i].mnemonic # ""
                    /\ containerObject.wallets[i].mnemonic = ret.arg[i].mnemonic
     ELSE /\ ret.kind = "value"
          /\ containerObject.exists /\ containerObject.seedType = SeedMnemonic
          /\ Len(containerObject.wallets) = 1
          /\ containerObject.wallets[1].mnemonic # ""

\* every wallet of the sequence carries a mnemonic
CarriesMnemonic(ws) == \A i \in 1..Len(ws) : ws[i].mnemonic # ""
\* a container as the design describes it: not empty, and of the mnemonic
\* type only with wallets that carry a mnemonic
WellFormed(c) ==
  /\ c.exists /\ c.wallets # <<>>
  /\ c.seedType = SeedMnemonic => CarriesMnemonic(c.wallets)
\* two spellings of one address
SameIgnoringCase(a, b) == a = b \/ {a, b} = {"0xAa", "0xaa"}
\* the places of the wallets whose address is a, ignoring case
Matching(ws, a) == {i \in 1..Len(ws) : SameIgnoringCase(ws[i].address, a)}
First(S) == CHOOSE i \in S : \A j \in S : i <= j

\* C21: addWallet and removeWallet keep a container non-empty, and keep every
\* wallet of a mnemonic container carrying a mnemonic.
C21_Claimed ==
  [][ret'.m \in {"addWallet", "removeWallet"} /\ WellFormed(containerObject)
     => WellFormed(containerObject')]_vars

\* C22: no two wallets of a container have the same address ignoring case.
C22_Claimed ==
  containerObject.exists
  => \A i, j \in 1..Len(containerObject.wallets) :
       i # j => ~SameIgnoringCase(containerObject.wallets[i].address,
                                  containerObject.wallets[j].address)

\* C23: getWalletByAddress answers with the first wallet whose address is the
\* one asked for ignoring case (null when there is none), the same for every
\* spelling of the address; removeWallet takes out exactly that first wallet
\* and keeps the others in their order.
C23_CaseInsensitiveSelection ==
  [][LET ws == containerObject.wallets
         a == ret'.address
         hits == Matching(ws, a) IN
     /\ ret'.m = "getWalletByAddress"
        => /\ ret'.wallets = IF hits = {} THEN <<>> ELSE <<ws[First(hits)]>>
           /\ \A b \in AddrInputs : SameIgnoringCase(a, b) => find(ws, b) = ret'.wallets
     /\ ret'.m = "removeWallet" /\ hits # {}
        => containerObject'.wallets =
             [i \in 1..(Len(ws) - 1) |-> IF i < First(hits) THEN ws[i] ELSE ws[i + 1]]]_vars
C23_Witness ==
  /\ ret.m = "removeWallet" /\ ret.address = "0xaa"
  /\ containerObject.wallets = <<BareWallet("0xBb", "k2", "m1", "")>>

\* C24: removeWallet of an address no wallet of the container has, ignoring
\* case, raises no error and leaves the wallets as they were.
C24_RemoveAbsentIsNoOp ==
  [][ret'.m = "removeWallet" /\ Matching(containerObject.wallets, ret'.address) = {}
     => ret'.kind = "value" /\ UNCHANGED containerObject]_vars
C24_Witness ==
  /\ ret.m = "removeWallet" /\ ret.address = "0xDd" /\ ret.kind = "value"
  /\ Len(containerObject.wallets) = 2

\* C25: a container of the same seed type constructed from the wallets of
\* toPlainObject() has as many wallets, in the same order, with the same
\* addresses and private keys, and with the name and the mnemonic of every
\* wallet that had one.
C25_Claimed ==
  [][/\ ret.m = "toPlainObject" /\ WellFormed(containerObject)
     /\ ret'.m = (IF ret.str = SeedMnemonic THEN "new MnemonicWalletContainer"
                  ELSE "new PrivateKeyWalletContainer")
     /\ ret'.str = "list" /\ ret'.arg = ret.wallets
     => LET old == containerObject.wallets
            new == containerObject'.wallets IN
        /\ ret'.kind = "value"
        /\ containerObject'.seedType = containerObject.seedType
        /\ Len(new) = Len(old)
        /\ \A i \in 1..Len(old) :
             /\ new[i].address = old[i].address
             /\ new[i].privateKey = old[i].privateKey
             /\ old[i].name # "" => new[i].name = old[i].name
             /\ old[i].mnemonic # "" => new[i].mnemonic = old[i].mnemonic]_vars

-----------------------------------------------------------------------------
(* Properties of the record and its persistence *)

\* C26: a switchChainForOrigin (setChainForOrigin) that is carried out makes
\* its chain the chain resolved for its origin and leaves the chain resolved
\* for every other origin as it was, the default chain if it was never set;
\* requestChainForOrigin and eth_chainId answer with the resolved chain.
C26_ChainSetForOriginOnly ==
  [][/\ ret'.m = "switchChainForOrigin" /\ ret'.kind = "value"
        => \A o \in PermOrigins :
             getChainForOrigin(record', o) =
               IF o = ret'.origin THEN ret'.arg[1] ELSE getChainForOrigin(record, o)
     /\ ret'.m = "requestChainForOrigin" /\ ret'.kind = "value"
        => ret'.str = IF ChainOf(record, ret'.origin) = NoChain THEN Ethereum
                      ELSE ChainOf(record, ret'.origin)
     /\ ret'.m = "eth_chainId" /\ ret'.kind = "value" /\ record.exists
        => ret'.str = IF ChainOf(record, ret'.ctx) = Polygon THEN "0x89" ELSE "0x1"]_vars
C26_Witness ==
  /\ ret.m = "requestChainForOrigin" /\ ret.kind = "value"
  /\ ret.origin = "https://example.com" /\ ret.str = Ethereum
  /\ ChainOf(record, "https://example.com") = NoChain
  /\ ChainOf(record, "https://dapp.org") = Polygon

\* the seed types of the groups of the record that hold address a
SeedTypesHolding(rec, a) ==
  {rec.groups[i].walletContainer.seedType :
     i \in {j \in 1..Len(rec.groups) : a \in GroupAddrs(rec.groups[j])}}
StagingMethods == {"uiGenerateMnemonic", "uiImportPrivateKey", "uiImportSeedPhrase"}

\* C27: with a session key uiGenerateMnemonic stages a mnemonic container
\* with the generated wallet; savePendingWallet, with an encryption key,
\* then leaves a record with a mnemonic group that holds that wallet, clears
\* the pending wallet and issues the save of that record; uiGetWalletByAddress
\* finds the wallet by its address from then on.
C27_GenerateThenCommit ==
  [][/\ ret'.m = "uiGenerateMnemonic" /\ seedPhraseEncryptionKey # ""
        => /\ ret'.kind = "value"
           /\ pendingWallet'.exists /\ pendingWallet'.origin = "extension"
           /\ pendingWallet'.walletContainer.seedType = SeedMnemonic
           /\ Len(pendingWallet'.walletContainer.wallets) = 1
           /\ ret'.str = pendingWallet'.walletContainer.wallets[1].address
     /\ ret'.m = "savePendingWallet" /\ pendingWallet.exists
          /\ pendingWallet.origin = "extension" /\ encryptionKey # ""
        => LET a == pendingWallet.walletContainer.wallets[1].address IN
           /\ ret'.kind = "value"
           /\ record'.exists
           /\ SeedMnemonic \in SeedTypesHolding(record', a)
           /\ ~pendingWallet'.exists
           /\ ret'.saved /\ stored' = record'
     /\ ret'.m = "uiGetWalletByAddress" /\ ret'.kind = "value"
        => ret'.str = IF SeedTypesHolding(record, ret'.address) # {}
                        THEN ret'.address ELSE ""]_vars
C27_Witness ==
  /\ ret.m = "uiGetWalletByAddress" /\ ret.kind = "value" /\ ret.str = AddrG
  /\ Len(record.groups) = 2
  /\ SeedTypesHolding(record, AddrG) = {SeedMnemonic}
  /\ ~pendingWallet.exists
  /\ stored = record

\* C28: uiGenerateMnemonic, uiImportPrivateKey and uiImportSeedPhrase change
\* the pending wallet only, neither the record nor the store; an address
\* comes into the stored record, or into the record, only from the record,
\* from the store, or from the pending wallet that savePendingWallet commits.
C28_PendingNeverPersisted ==
  [][/\ ret'.m \in StagingMethods
        => UNCHANGED <<record, stored, encryptionKey, seedPhraseEncryptionKey, windows>>
           /\ ~ret'.saved
     /\ LET known == OwnedAddrs(record) \cup OwnedAddrs(stored)
            committed == IF ret'.m = "savePendingWallet" /\ ret'.kind = "value"
                           THEN SeqAddrs(pendingWallet.walletContainer.wallets) ELSE {} IN
        /\ OwnedAddrs(stored') \subseteq known \cup committed
        /\ OwnedAddrs(record') \subseteq known \cup committed]_vars
C28_Witness ==
  /\ ret.m = "uiImportPrivateKey" /\ ret.kind = "value"
  /\ pendingWallet.exists /\ pendingWallet.walletContainer.seedType = SeedPrivateKey
  /\ stored.exists /\ record = stored
  /\ AddrP \notin OwnedAddrs(stored)
  /\ AddrG \in OwnedAddrs(stored)

\* C29: when the save a call issued has failed, the record in memory is the
\* record last persisted.
C29_Claimed ==
  [][ret'.saved /\ walletStore.failing => record' = stored']_vars

\* C30: no call edits the record while a re-sync is suspended between the
\* read of the stored record and the swap, and the record a re-sync swaps in
\* is the persisted record, with every completed edit in it.
C30_Claimed ==
  [][/\ ret'.saved => sync # "read"
     /\ ret'.m = "syncWithWalletStore" => record' = stored]_vars

-----------------------------------------------------------------------------
(* Properties of the order of steps and of the events *)

\* the failures of sendTransaction for the sender address and for the chain
MismatchErrors == {"FromMissing", "FromMismatch", "ChainMismatch"}

\* C31: sendTransaction fails for a missing or different tx.from as soon as
\* it is called, and for a different tx.chainId as soon as the chain of the
\* origin is resolved: no gas price was asked for, no signer or provider
\* built and nothing submitted; no event is emitted and the record and the
\* store stay as they are.
C31_MismatchFailsFirst ==
  [][/\ ret'.err \in MismatchErrors
        => /\ ret'.kind = "error" /\ ret'.events = <<>> /\ ~ret'.saved
           /\ record' = record /\ stored' = stored /\ windows' = windows
           /\ IF ret'.m = "signAndSendTransaction"
                THEN ret'.err # "ChainMismatch" /\ txp' = txp
                ELSE /\ ret'.m = "sendTransaction" /\ ret'.err = "ChainMismatch"
                     /\ txp.pc = "awaitChainId" /\ txp.signer = "" /\ txp.signChain = ""
                     /\ txp' = NoTx
     /\ (txp.pc = "awaitChainId" /\ txp' # txp
           /\ txp.txChainId # "" /\ txp.txChainId # txp.chainId)
        => ret'.err = "ChainMismatch"
     /\ (txp.pc \in {"awaitGasPrice", "awaitProvider", "awaitSend"} /\ txp' # txp)
        => ret'.err \notin MismatchErrors]_vars
C31_Witness ==
  /\ ret.m = "sendTransaction" /\ ret.kind = "error" /\ ret.err = "ChainMismatch"
  /\ ret.address = "0xaa" /\ ret.events = <<>>
  /\ txp = NoTx /\ record = stored /\ record.exists

\* how many times a call published the event e
Published(r, e) == Cardinality({i \in 1..Len(r.events) : r.events[i] = e})

RecordMutations ==
  {"savePendingWallet", "renameWalletGroup", "renameAddress", "removeAddress",
   "removeWalletGroup", "setPreference", "removePermission",
   "removeAllOriginPermissions", "switchChainForOrigin", "setCurrentAddress"}

\* C33: every successful mutation of the record (the group and address
\* edits, setPreference, the permission, chain and current-address edits)
\* publishes recordUpdated exactly once
C33_Claimed ==
  [][ret'.m \in RecordMutations /\ ret'.kind = "value" =>
       Published(ret', "recordUpdated") = 1]_vars

-----------------------------------------------------------------------------
(* Properties of the session key and of its timer *)

\* the step takes the session key from Active to Absent
KeyGoesAbsent == seedPhraseEncryptionKey # "" /\ seedPhraseEncryptionKey' = ""

\* C34: the session key is Absent initially and goes from Active to Absent
\* only by removeSeedPhraseEncryptionKey or by the expiry timer; generation,
\* import, commit, permission and preference edits keep it
C34_Claimed ==
  /\ seedPhraseEncryptionKey = ""
  /\ [][KeyGoesAbsent =>
          ret'.m \in {"removeSeedPhraseEncryptionKey", "seedPhraseExpiryTimer"}]_vars

\* C40: at most one expiry timer is pending, and it is the one set last:
\* updateCredentials cancels the timer pending and sets a new one, and the
\* callback that expires the key is that of the timer set last, never one
\* set for an earlier key
C40_OneTimerPending ==
  /\ [](Cardinality(timers) <= 1 /\ timers \subseteq {seedPhraseExpiryTimerId})
  /\ [][/\ ret'.m = "updateCredentials" =>
             (/\ seedPhraseExpiryTimerId' # seedPhraseExpiryTimerId
              /\ timers' = {seedPhraseExpiryTimerId'})
        /\ ret'.m = "seedPhraseExpiryTimer" =>
             (timers = {seedPhraseExpiryTimerId} /\ timers' = {})]_vars

\* the key established again: the second timer pending, the first gone
C40_Witness ==
  /\ ret.m = "updateCredentials"
  /\ seedPhraseExpiryTimerId = 2 /\ timers = {2}
  /\ seedPhraseEncryptionKey = "skey"

-----------------------------------------------------------------------------
(* Properties of the internal contexts *)

\* C36: allowedOrigin authorizes, for every address, every context that
\* verifyInternalOrigin accepts: INTERNAL_ORIGIN and INTERNAL_ORIGIN_SYMBOL
C36_Claimed ==
  [][ret'.m = "allowedOrigin" /\ verifyInternalOrigin(ret'.ctx) =>
       ret'.kind = "value" /\ ret'.str = "true"]_vars

-----------------------------------------------------------------------------
(* Properties of the promise eth_requestAccounts returns *)

\* C37: an eth_requestAccounts call that opened a confirmation settles once
\* the gateway has called back: with the accounts or with an error
C37_Claimed ==
  (ret.m = "eth_requestAccounts" /\ ret.kind = "pending")
    ~> (/\ ret.m \in {"onResolve/requestAccounts", "onDismiss/requestAccounts"}
        /\ ret.kind \in {"value", "error"})

\* C38: wallet_requestPermissions whose params do not ask for eth_accounts
\* fails with InvalidParams, opens no confirmation and leaves the record as
\* it is; the method records a permission only for params that do ask for
\* eth_accounts, once the user approved
C38_Claimed ==
  [][/\ (ret'.m = "wallet_requestPermissions" /\ ~generatePermissionResponse(ret'.arg)) =>
          (/\ ret'.kind = "error" /\ ret'.err = "InvalidParams"
           /\ UNCHANGED <<record, windows>>)
     /\ (ret'.m = "onResolve/requestPermissions" /\ record' # record) =>
          generatePermissionResponse(ret'.arg)]_vars

-----------------------------------------------------------------------------
(* Properties of the credentials *)

\* C35: a read that fails to decrypt, in the load the constructor starts or
\* in updateCredentials, reaches a caller as an error, never as a rejection
\* nobody handles, and leaves no record in memory beside the credentials
\* that were rejected
C35_Claimed ==
  [][(ret'.m = "syncWithWalletStore" /\ ret'.err = "DecryptionError") =>
       (ret'.kind = "error" /\ ~record'.exists)]_vars

\* C39: every save writes, under the id and key of the controller, a record
\* loaded from or committed under that id: the wallets of the record saved
\* were under the id before or are committed by the call
C39_Claimed ==
  [][ret'.saved =>
       LET committed == IF ret'.m = "savePendingWallet"
                          THEN SeqAddrs(pendingWallet.walletContainer.wallets) ELSE {} IN
       /\ OwnedAddrs(stored') \subseteq OwnedAddrs(stored) \cup committed
       /\ store'[id'].key = KeyOf(id')]_vars
====
